---- MODULE Spec2Model ----
(***************************************************************************)
(* Model of the check evaluation engine of GithubCICDChecker:              *)
(*   - the Check Catalog            (src/checks/definitions.rs)            *)
(*   - the CheckResult constructors (src/models/check.rs)                  *)
(*   - the GitHub client operations (src/services/client.rs)               *)
(*   - the evaluators and dispatch  (src/checks/runner.rs)                 *)
(*   - CheckEngine::analyze         (src/checks/engine.rs)                 *)
(*   - the scores and the gauge     (src/models/score.rs,                  *)
(*                                   src/components/score_gauge.rs)        *)
(*   - the application state        (src/components/app.rs)                *)
(*   - the AI review of a report    (src/components/results.rs,            *)
(*                                   src/services/ai_client.rs)            *)
(*                                                                         *)
(* The repository and the availability of the GitHub API are fixed when a  *)
(* call of analyze starts (variable gateway); the call then fetches the    *)
(* metadata, runs the checks of the catalog one after the other and        *)
(* aggregates.  In Spec and its variants one behaviour is one such call;   *)
(* in AppSpec a behaviour is a session of the application, in which        *)
(* analyses are submitted, shown, reviewed and reset.                      *)
(***************************************************************************)
EXTENDS FiniteSets, Integers, Sequences, TLC

VARIABLES
    url,       \* the text submitted in the search bar
    gateway,   \* what the GitHub API answers during this call of analyze
    catalog,   \* `checks`: the Vec<Check> analyze iterates over
    pc,        \* position of the task: "idle", "submitted", "start", "checks",
               \* "awaiting" or "returned"
    results,   \* `results`: the Vec<CheckResult> pushed so far
    calls,     \* the Gateway operations called so far
    ret,       \* the outcome of the task: the value analyze returned, or the
               \* error of the URL (NotReturned before)
    state,     \* the AnalysisState of the application
    token,     \* the token kept by the application (Option<String>)
    tasks,     \* the number of tasks spawned by on_analyze that have not ended
    ai_state,  \* the AiReviewState of the mounted Results (None: not mounted)
    reviews,   \* the review tasks spawned by on_ai_request that have not ended
    ai_calls,  \* the tokens of the requests sent to the AI API
    requests   \* the number of times on_ai_request was called

vars == <<url, gateway, catalog, pc, results, calls, ret,
          state, token, tasks, ai_state, reviews, ai_calls, requests>>

----------------------------------------------------------------------------
(* Bounds of the model *)

\* At most this many Gateway operations are unavailable during one call.
MaxFaults == 1

\* At most this many commits in the history of a repository.
MaxCommits == 5

\* At most this many files in the workflow directory of a repository.
MaxFiles == 2

----------------------------------------------------------------------------
(* models/check.rs *)

CheckStatus == {"Passed", "Failed", "Warning", "Skipped"}

CheckCategory == {"Fundamentals", "Intermediate", "Advanced", "Bonus"}

\* Option<String>: None is <<>>, Some(s) is <<s>>.
None == <<>>

Some(s) == <<s>>

\* Check.max_points; the Check literals of all_checks name no weight.
max_points(check) ==
    IF "max_points" \in DOMAIN check THEN check.max_points ELSE 0

passed(check, detail) ==
    [check |-> check, status |-> "Passed", points_earned |-> max_points(check),
     detail |-> detail, suggestion |-> None]

failed(check, detail, suggestion) ==
    [check |-> check, status |-> "Failed", points_earned |-> 0,
     detail |-> detail, suggestion |-> Some(suggestion)]

\* runner.rs calls warning(check, detail, suggestion): no points are given.
warning(check, detail, suggestion) ==
    [check |-> check, status |-> "Warning", points_earned |-> 0,
     detail |-> detail, suggestion |-> Some(suggestion)]

\* Faulty variant: the reason of a skipped check is repeated as its suggestion.
skipped_with_suggestion(check, reason) ==
    [check |-> check, status |-> "Skipped", points_earned |-> 0,
     detail |-> reason, suggestion |-> Some(reason)]

skipped(check, reason) ==
    [check |-> check, status |-> "Skipped", points_earned |-> 0,
     detail |-> reason, suggestion |-> None]

----------------------------------------------------------------------------
(* checks/definitions.rs *)

\* Faulty variant: every Check literal carries the same id.
Check_unnamed(id, category) == [id |-> "check", category |-> category]

Check(id, category) == [id |-> id, category |-> category]

all_checks ==
    << Check("pipeline_exists", "Fundamentals"),
       Check("pipeline_green", "Fundamentals"),
       Check("tests_exist", "Fundamentals"),
       Check("tests_pass", "Fundamentals"),
       Check("lint_in_ci", "Fundamentals"),
       Check("dockerfile_exists", "Fundamentals"),
       Check("docker_build_ci", "Fundamentals"),
       Check("no_secrets_in_code", "Fundamentals"),
       Check("readme_exists", "Fundamentals"),
       Check("security_scan", "Intermediate"),
       Check("coverage_configured", "Intermediate"),
       Check("dependabot_configured", "Intermediate"),
       Check("ghcr_published", "Intermediate"),
       Check("quality_gate", "Intermediate"),
       Check("branch_protection", "Advanced"),
       Check("pipeline_fast", "Advanced"),
       Check("multi_environment", "Advanced"),
       Check("auto_deploy", "Advanced"),
       Check("ci_cache", "Advanced"),
       Check("ci_notifications", "Advanced"),
       Check("matrix_testing", "Advanced"),
       Check("reusable_workflows", "Advanced"),
       Check("codeowners_exists", "Bonus"),
       Check("gitignore_exists", "Bonus"),
       Check("release_tagging", "Bonus"),
       Check("smoke_tests", "Bonus"),
       Check("conventional_commits", "Bonus"),
       Check("auto_changelog", "Bonus"),
       Check("rollback_strategy", "Bonus") >>

----------------------------------------------------------------------------
(* Strings.                                                                *)
(*                                                                         *)
(* Commit messages and the changelog are sequences of characters, and the  *)
(* str methods used on them are computed on the characters.  The text of a *)
(* workflow file is one of the texts of WorkflowTexts; what to_lowercase,  *)
(* contains and ends_with yield on these texts and on the file names is    *)
(* tabulated (Lower, Occurs, Suffixes: computed from the texts with the    *)
(* patterns searched by runner.rs).  The String built by                   *)
(* aggregate_workflow_content is the sequence of the texts pushed; a       *)
(* pattern is not looked for across the newline pushed between two files.  *)
(***************************************************************************)

Min(a, b) == IF a <= b THEN a ELSE b

\* str::starts_with
starts_with(s, p) == Len(s) >= Len(p) /\ SubSeq(s, 1, Len(p)) = p

\* &s[i..] (1-based here)
slice_from(s, i) == SubSeq(s, i, Len(s))

\* str::find(char): the first position of c in s, 0 for None.
find(s, c) ==
    IF \E i \in DOMAIN s : s[i] = c
    THEN CHOOSE i \in DOMAIN s : s[i] = c /\ \A j \in 1..(i - 1) : s[j] # c
    ELSE 0

RECURSIVE lines(_)
\* str::lines: split at "\n" (a "\r" before it is dropped); no final empty line.
lines(s) ==
    IF s = <<>> THEN <<>>
    ELSE LET n == find(s, "\n")
             first == IF n = 0 THEN s ELSE SubSeq(s, 1, n - 1)
             line == IF n # 0 /\ first # <<>> /\ first[Len(first)] = "\r"
                     THEN SubSeq(first, 1, Len(first) - 1) ELSE first
         IN  IF n = 0 THEN <<line>> ELSE <<line>> \o lines(slice_from(s, n + 1))

\* The texts of the workflow files of the sample repositories.
T_basic ==
    "on:\n  push:\njobs:\n  build:\n    runs-on: ubuntu-latest\n    steps:\n      - run: cargo clippy\n      - run: cargo test\n"

T_deploy ==
    "on:\n  workflow_dispatch:\njobs:\n  deploy-staging:\n    environment: staging\n    steps:\n      - uses: docker/build-push-action@v5\n        with:\n          push: true\n          tags: ghcr.io/acme/app\n      - run: trivy image app\n      - uses: codecov/codecov-action@v4\n      - uses: actions/cache@v4\n      - run: npx playwright test\n      - uses: 8398a7/action-slack@v3\n"

T_upper ==
    "ON:\n  PUSH:\nJOBS:\n  BUILD:\n    STRATEGY:\n      MATRIX:\n        OS: [UBUNTU]\n    STEPS:\n      - RUN: CARGO TEST\n      - RUN: ./DEPLOY.SH PRODUCTION\n  REUSE:\n    ON:\n      WORKFLOW_CALL:\n    ENV:\n      PASSWORD: HUNTER2\n"

T_matrix ==
    "on: [push]\njobs:\n  test:\n    strategy:\n      matrix:\n        node-version: [18, 20]\n    steps:\n      - run: npm test\n  call:\n    uses: ./.github/workflows/ci.yml\n    env:\n      password: hunter2\n"

T_notes ==
    "trivy snyk deploy staging production\n"

\* T_upper in lower case.
T_lower ==
    "on:\n  push:\njobs:\n  build:\n    strategy:\n      matrix:\n        os: [ubuntu]\n    steps:\n      - run: cargo test\n      - run: ./deploy.sh production\n  reuse:\n    on:\n      workflow_call:\n    env:\n      password: hunter2\n"

\* T_deploy in upper case.
T_DEPLOY ==
    "ON:\n  WORKFLOW_DISPATCH:\nJOBS:\n  DEPLOY-STAGING:\n    ENVIRONMENT: STAGING\n    STEPS:\n      - USES: DOCKER/BUILD-PUSH-ACTION@V5\n        WITH:\n          PUSH: TRUE\n          TAGS: GHCR.IO/ACME/APP\n      - RUN: TRIVY IMAGE APP\n      - USES: CODECOV/CODECOV-ACTION@V4\n      - USES: ACTIONS/CACHE@V4\n      - RUN: NPX PLAYWRIGHT TEST\n      - USES: 8398A7/ACTION-SLACK@V3\n"

\* One environment indicator occurs: "staging".
T_staging ==
    "on:\n  schedule:\njobs:\n  nightly:\n    steps:\n      - run: ./check.sh staging\n"

\* One environment is named; "production" and "prod" occur.
T_production ==
    "on:\n  schedule:\njobs:\n  nightly:\n    steps:\n      - run: ./check.sh production\n"

WorkflowTexts ==
    {T_basic, T_deploy, T_upper, T_matrix, T_notes, T_lower, T_DEPLOY, T_staging, T_production}

\* str::to_lowercase on the workflow texts.
Lower ==
    ("on:\n  push:\njobs:\n  build:\n    runs-on: ubuntu-latest\n    steps:\n      - run: cargo clippy\n      - run: cargo test\n" :>
        "on:\n  push:\njobs:\n  build:\n    runs-on: ubuntu-latest\n    steps:\n      - run: cargo clippy\n      - run: cargo test\n")
    @@ ("on:\n  workflow_dispatch:\njobs:\n  deploy-staging:\n    environment: staging\n    steps:\n      - uses: docker/build-push-action@v5\n        with:\n          push: true\n          tags: ghcr.io/acme/app\n      - run: trivy image app\n      - uses: codecov/codecov-action@v4\n      - uses: actions/cache@v4\n      - run: npx playwright test\n      - uses: 8398a7/action-slack@v3\n" :>
        "on:\n  workflow_dispatch:\njobs:\n  deploy-staging:\n    environment: staging\n    steps:\n      - uses: docker/build-push-action@v5\n        with:\n          push: true\n          tags: ghcr.io/acme/app\n      - run: trivy image app\n      - uses: codecov/codecov-action@v4\n      - uses: actions/cache@v4\n      - run: npx playwright test\n      - uses: 8398a7/action-slack@v3\n")
    @@ ("ON:\n  PUSH:\nJOBS:\n  BUILD:\n    STRATEGY:\n      MATRIX:\n        OS: [UBUNTU]\n    STEPS:\n      - RUN: CARGO TEST\n      - RUN: ./DEPLOY.SH PRODUCTION\n  REUSE:\n    ON:\n      WORKFLOW_CALL:\n    ENV:\n      PASSWORD: HUNTER2\n" :>
        "on:\n  push:\njobs:\n  build:\n    strategy:\n      matrix:\n        os: [ubuntu]\n    steps:\n      - run: cargo test\n      - run: ./deploy.sh production\n  reuse:\n    on:\n      workflow_call:\n    env:\n      password: hunter2\n")
    @@ ("on: [push]\njobs:\n  test:\n    strategy:\n      matrix:\n        node-version: [18, 20]\n    steps:\n      - run: npm test\n  call:\n    uses: ./.github/workflows/ci.yml\n    env:\n      password: hunter2\n" :>
        "on: [push]\njobs:\n  test:\n    strategy:\n      matrix:\n        node-version: [18, 20]\n    steps:\n      - run: npm test\n  call:\n    uses: ./.github/workflows/ci.yml\n    env:\n      password: hunter2\n")
    @@ ("trivy snyk deploy staging production\n" :>
        "trivy snyk deploy staging production\n")
    @@ ("on:\n  push:\njobs:\n  build:\n    strategy:\n      matrix:\n        os: [ubuntu]\n    steps:\n      - run: cargo test\n      - run: ./deploy.sh production\n  reuse:\n    on:\n      workflow_call:\n    env:\n      password: hunter2\n" :>
        "on:\n  push:\njobs:\n  build:\n    strategy:\n      matrix:\n        os: [ubuntu]\n    steps:\n      - run: cargo test\n      - run: ./deploy.sh production\n  reuse:\n    on:\n      workflow_call:\n    env:\n      password: hunter2\n")
    @@ ("ON:\n  WORKFLOW_DISPATCH:\nJOBS:\n  DEPLOY-STAGING:\n    ENVIRONMENT: STAGING\n    STEPS:\n      - USES: DOCKER/BUILD-PUSH-ACTION@V5\n        WITH:\n          PUSH: TRUE\n          TAGS: GHCR.IO/ACME/APP\n      - RUN: TRIVY IMAGE APP\n      - USES: CODECOV/CODECOV-ACTION@V4\n      - USES: ACTIONS/CACHE@V4\n      - RUN: NPX PLAYWRIGHT TEST\n      - USES: 8398A7/ACTION-SLACK@V3\n" :>
        "on:\n  workflow_dispatch:\njobs:\n  deploy-staging:\n    environment: staging\n    steps:\n      - uses: docker/build-push-action@v5\n        with:\n          push: true\n          tags: ghcr.io/acme/app\n      - run: trivy image app\n      - uses: codecov/codecov-action@v4\n      - uses: actions/cache@v4\n      - run: npx playwright test\n      - uses: 8398a7/action-slack@v3\n")
    @@ ("on:\n  schedule:\njobs:\n  nightly:\n    steps:\n      - run: ./check.sh staging\n" :>
        "on:\n  schedule:\njobs:\n  nightly:\n    steps:\n      - run: ./check.sh staging\n")
    @@ ("on:\n  schedule:\njobs:\n  nightly:\n    steps:\n      - run: ./check.sh production\n" :>
        "on:\n  schedule:\njobs:\n  nightly:\n    steps:\n      - run: ./check.sh production\n")

\* str::contains: the searched patterns that occur in each text.
Occurs ==
    ("on:\n  push:\njobs:\n  build:\n    runs-on: ubuntu-latest\n    steps:\n      - run: cargo clippy\n      - run: cargo test\n" :>
        {"cargo test", "clippy", "go test", "on:\n  push:", "runs-on:", "test"})
    @@ ("on:\n  workflow_dispatch:\njobs:\n  deploy-staging:\n    environment: staging\n    steps:\n      - uses: docker/build-push-action@v5\n        with:\n          push: true\n          tags: ghcr.io/acme/app\n      - run: trivy image app\n      - uses: codecov/codecov-action@v4\n      - uses: actions/cache@v4\n      - run: npx playwright test\n      - uses: 8398a7/action-slack@v3\n" :>
        {"8398a7/action-slack", "actions/cache", "build-push-action", "codecov", "deploy", "deploy-staging", "docker/build-push-action", "environment:", "ghcr.io", "playwright", "push: true", "staging", "test", "trivy", "workflow_dispatch:"})
    @@ ("ON:\n  PUSH:\nJOBS:\n  BUILD:\n    STRATEGY:\n      MATRIX:\n        OS: [UBUNTU]\n    STEPS:\n      - RUN: CARGO TEST\n      - RUN: ./DEPLOY.SH PRODUCTION\n  REUSE:\n    ON:\n      WORKFLOW_CALL:\n    ENV:\n      PASSWORD: HUNTER2\n" :>
        {})
    @@ ("on: [push]\njobs:\n  test:\n    strategy:\n      matrix:\n        node-version: [18, 20]\n    steps:\n      - run: npm test\n  call:\n    uses: ./.github/workflows/ci.yml\n    env:\n      password: hunter2\n" :>
        {"matrix:", "node-version", "npm test", "on: [push", "password: ", "strategy:", "test", "uses: ./.github/workflows/"})
    @@ ("trivy snyk deploy staging production\n" :>
        {"deploy", "prod", "production", "snyk", "staging", "trivy"})
    @@ ("on:\n  push:\njobs:\n  build:\n    strategy:\n      matrix:\n        os: [ubuntu]\n    steps:\n      - run: cargo test\n      - run: ./deploy.sh production\n  reuse:\n    on:\n      workflow_call:\n    env:\n      password: hunter2\n" :>
        {"cargo test", "deploy", "go test", "matrix:", "on:\n  push:", "os:", "password: ", "prod", "production", "strategy:", "test", "workflow_call:"})
    @@ ("ON:\n  WORKFLOW_DISPATCH:\nJOBS:\n  DEPLOY-STAGING:\n    ENVIRONMENT: STAGING\n    STEPS:\n      - USES: DOCKER/BUILD-PUSH-ACTION@V5\n        WITH:\n          PUSH: TRUE\n          TAGS: GHCR.IO/ACME/APP\n      - RUN: TRIVY IMAGE APP\n      - USES: CODECOV/CODECOV-ACTION@V4\n      - USES: ACTIONS/CACHE@V4\n      - RUN: NPX PLAYWRIGHT TEST\n      - USES: 8398A7/ACTION-SLACK@V3\n" :>
        {})
    @@ ("on:\n  schedule:\njobs:\n  nightly:\n    steps:\n      - run: ./check.sh staging\n" :>
        {"staging"})
    @@ ("on:\n  schedule:\njobs:\n  nightly:\n    steps:\n      - run: ./check.sh production\n" :>
        {"prod", "production"})

\* str::ends_with: the YAML suffixes each file name ends with.
Suffixes ==
    ("ci.yml" :> {".yml"})
    @@ ("deploy.yaml" :> {".yaml"})
    @@ ("CI.yml" :> {".yml"})
    @@ ("test.yml" :> {".yml"})
    @@ ("notes.txt" :> {})
    @@ ("staging.yml" :> {".yml"})
    @@ ("production.yml" :> {".yml"})

to_lowercase(content) == [i \in DOMAIN content |-> Lower[content[i]]]

contains(content, pattern) == \E i \in DOMAIN content : pattern \in Occurs[content[i]]

ends_with(name, suffix) == suffix \in Suffixes[name]

----------------------------------------------------------------------------
(* services/client.rs: the operations of the Gateway *)

Endpoints ==
    {"fetch_repo_metadata", "fetch_workflow_files", "fetch_file_content",
     "fetch_workflow_runs", "fetch_branch_protection", "file_exists",
     "fetch_releases", "fetch_commits", "fetch_raw_file"}

Ok(v) == [ok |-> TRUE, value |-> v]

Err(status) == [ok |-> FALSE, status |-> status]

\* char::is_whitespace, on the characters of the sample URLs.
is_whitespace(c) == c \in {" ", "\t", "\n", "\r"}

RECURSIVE trim_start(_)
trim_start(s) ==
    IF s # <<>> /\ is_whitespace(Head(s)) THEN trim_start(Tail(s)) ELSE s

RECURSIVE trim_end(_)
trim_end(s) ==
    IF s # <<>> /\ is_whitespace(s[Len(s)]) THEN trim_end(SubSeq(s, 1, Len(s) - 1)) ELSE s

\* str::trim
trim(s) == trim_end(trim_start(s))

RECURSIVE trim_end_matches(_, _)
\* str::trim_end_matches: the suffix is removed as often as it is there.
trim_end_matches(s, suffix) ==
    IF Len(s) >= Len(suffix) /\ SubSeq(s, Len(s) - Len(suffix) + 1, Len(s)) = suffix
    THEN trim_end_matches(SubSeq(s, 1, Len(s) - Len(suffix)), suffix)
    ELSE s

\* str::find(&str): the first position where p occurs in s, 0 for None.
find_str(s, p) ==
    LET at == {i \in 1..(Len(s) - Len(p) + 1) : SubSeq(s, i, i + Len(p) - 1) = p}
    IN  IF at = {} THEN 0 ELSE CHOOSE i \in at : \A j \in at : i <= j

\* str::contains(&str) on characters
contains_str(s, p) == find_str(s, p) # 0

RECURSIVE split(_, _)
\* str::split: the pieces of s between the occurrences of sep, from the left.
split(s, sep) ==
    LET i == find_str(s, sep)
    IN  IF i = 0 THEN <<s>>
        ELSE <<SubSeq(s, 1, i - 1)>> \o split(SubSeq(s, i + Len(sep), Len(s)), sep)

\* Err(String) of parse_repo_url
ParseError(message) == [ok |-> FALSE, error |-> message]

parse_repo_url(text) ==
    LET trimmed == trim_end_matches(trim(text), <<"/">>)
        pieces == split(trimmed, <<"g", "i", "t", "h", "u", "b", ".", "c", "o", "m", "/">>)
    IN  IF contains_str(trimmed, <<"g", "i", "t", "h", "u", "b", ".", "c", "o", "m">>) /\ Len(pieces) < 2
        THEN ParseError("Invalid GitHub URL")
        ELSE LET parts == IF contains_str(trimmed, <<"g", "i", "t", "h", "u", "b", ".", "c", "o", "m">>)
                          THEN split(pieces[2], <<"/">>)
                          ELSE split(trimmed, <<"/">>)
             IN  IF Len(parts) < 2 THEN ParseError("URL must contain owner/repo")
                 ELSE LET owner == parts[1]
                          repo == trim_end_matches(parts[2], <<".", "g", "i", "t">>)
                      IN  IF owner = <<>> \/ repo = <<>>
                          THEN ParseError("Owner and repo name cannot be empty")
                          ELSE Ok([owner |-> owner, repo |-> repo])

\* fetch_json / fetch_text: a request that cannot be sent is ApiError{status: 0},
\* a response whose status is not 200 is ApiError{status}, a 200 whose body
\* cannot be parsed is ApiError{status: 200}, and a 200 is otherwise the
\* body.  A resource the repository does not have (None) is answered 404.
fetch_json(g, ep, resource) ==
    IF ep \in g.down THEN Err(g.status)
    ELSE IF resource = None THEN Err(404)
    ELSE Ok(resource[1])

fetch_repo_metadata(g) == fetch_json(g, "fetch_repo_metadata", Some(g.repo))

fetch_workflow_files(g) == fetch_json(g, "fetch_workflow_files", g.workflows)

\* `path` names a file of the listing; its decoded text is the value.
fetch_file_content(g, file) == fetch_json(g, "fetch_file_content", Some(file.text))

fetch_raw_file(g, path) == fetch_json(g, "fetch_raw_file", g.changelog)

fetch_workflow_runs(g, per_page) ==
    fetch_json(g, "fetch_workflow_runs", Some(SubSeq(g.runs, 1, Min(per_page, Len(g.runs)))))

fetch_branch_protection(g, branch) ==
    fetch_json(g, "fetch_branch_protection", g.protection)

\* matches!(response, Ok(r) if r.status() == 200)
file_exists(g, path) ==
    LET response == IF "file_exists" \in g.down THEN g.status
                    ELSE IF path \in g.files THEN 200 ELSE 404
    IN  response = 200

fetch_releases(g, per_page) ==
    fetch_json(g, "fetch_releases", Some(SubSeq(g.releases, 1, Min(per_page, Len(g.releases)))))

fetch_commits(g, per_page) ==
    fetch_json(g, "fetch_commits", Some(SubSeq(g.commits, 1, Min(per_page, Len(g.commits)))))

----------------------------------------------------------------------------
(* checks/runner.rs *)

\* An evaluator yields its CheckResult and the Gateway operations it calls, in
\* the order of the calls.
Eval(result, called) == [result |-> result, calls |-> called]

yaml_files(files) ==
    SelectSeq(files, LAMBDA f : ends_with(f.name, ".yml") \/ ends_with(f.name, ".yaml"))

RECURSIVE push_files(_, _, _)
\* The loop of aggregate_workflow_content: the text of every YAML file that
\* could be fetched is pushed, followed by a newline.
push_files(g, files, content) ==
    IF files = <<>> THEN content
    ELSE LET file == Head(files)
             is_yaml == ends_with(file.name, ".yml") \/ ends_with(file.name, ".yaml")
             got == fetch_file_content(g, file)
         IN  push_files(g, Tail(files),
                        IF is_yaml /\ got.ok THEN Append(content, got.value)
                        ELSE content)

aggregate_workflow_content(g) ==
    LET files == fetch_workflow_files(g)
    IN  IF ~files.ok THEN [content |-> <<>>, calls |-> <<"fetch_workflow_files">>]
        ELSE [content |-> push_files(g, files.value, <<>>),
              calls |-> <<"fetch_workflow_files">> \o
                        (IF yaml_files(files.value) # <<>>
                         THEN <<"fetch_file_content">> ELSE <<>>)]

contains_any(content, patterns) == \E p \in patterns : contains(content, p)

found_in(content, patterns) == {p \in patterns : contains(content, p)}

check_pipeline_exists(g, check) ==
    LET files == fetch_workflow_files(g)
    IN  Eval(IF files.ok
             THEN IF yaml_files(files.value) = <<>>
                  THEN failed(check, "Aucun fichier workflow YAML trouve",
                              "Creez un fichier .github/workflows/ci.yml pour votre pipeline CI/CD")
                  ELSE passed(check, "{} workflow(s) trouve(s) : {}")
             ELSE failed(check, "Dossier .github/workflows/ introuvable",
                         "Creez le dossier .github/workflows/ et ajoutez un fichier YAML de pipeline"),
             <<"fetch_workflow_files">>)

\* Faulty variant: a successful run anywhere in the list makes the check pass.
check_pipeline_green_any_run(g, check) ==
    LET runs == fetch_workflow_runs(g, 5)
    IN  Eval(IF runs.ok
             THEN IF runs.value = <<>>
                  THEN failed(check, "Aucun run trouve sur la branche main",
                              "Lancez votre pipeline au moins une fois sur main")
                  ELSE IF \E i \in DOMAIN runs.value : runs.value[i].conclusion = Some("success")
                       THEN passed(check, "Dernier run '{}' reussi")
                       ELSE IF runs.value[1].conclusion # None
                       THEN failed(check, "Dernier run termine avec le statut : {}",
                                   "Corrigez les erreurs dans votre pipeline pour qu'il passe au vert")
                       ELSE warning(check, "Dernier run encore en cours",
                                    "Attendez la fin du run et relancez l'analyse")
             ELSE skipped(check, "Impossible de recuperer les runs (repo prive ou pas de workflows)"),
             <<"fetch_workflow_runs">>)

check_pipeline_green(g, check) ==
    LET runs == fetch_workflow_runs(g, 5)
    IN  Eval(IF runs.ok
             THEN IF runs.value = <<>>
                  THEN failed(check, "Aucun run trouve sur la branche main",
                              "Lancez votre pipeline au moins une fois sur main")
                  ELSE LET latest == runs.value[1]
                       IN  IF latest.conclusion = Some("success")
                           THEN passed(check, "Dernier run '{}' reussi")
                           ELSE IF latest.conclusion # None
                           THEN failed(check, "Dernier run termine avec le statut : {}",
                                       "Corrigez les erreurs dans votre pipeline pour qu'il passe au vert")
                           ELSE warning(check, "Dernier run encore en cours",
                                        "Attendez la fin du run et relancez l'analyse")
             ELSE skipped(check, "Impossible de recuperer les runs (repo prive ou pas de workflows)"),
             <<"fetch_workflow_runs">>)

tests_exist_keywords ==
    {"test", "pytest", "jest", "cargo test", "go test", "npm test", "yarn test",
     "phpunit", "rspec", "unittest"}

check_tests_exist(g, check) ==
    LET wf == aggregate_workflow_content(g)
        content_lower == to_lowercase(wf.content)
        has_test_step == contains_any(content_lower, tests_exist_keywords)
    IN  Eval(IF has_test_step
             THEN passed(check, "Execution de tests detectee dans la CI")
             ELSE failed(check, "Aucune etape de test detectee dans les workflows",
                         "Ajoutez une etape 'run: cargo test' ou equivalent dans votre pipeline"),
             wf.calls)

lint_keywords ==
    {"lint", "eslint", "clippy", "flake8", "pylint", "rubocop", "prettier",
     "rustfmt", "black", "golangci-lint", "fmt --check"}

check_lint_in_ci(g, check) ==
    LET wf == aggregate_workflow_content(g)
        content_lower == to_lowercase(wf.content)
        has_lint == contains_any(content_lower, lint_keywords)
    IN  Eval(IF has_lint
             THEN passed(check, "Etape de lint/formatage detectee dans la CI")
             ELSE failed(check, "Aucun linter ou formatteur detecte dans les workflows",
                         "Ajoutez un step de lint (ex: clippy, eslint, flake8) dans votre pipeline"),
             wf.calls)

check_file_exists(g, check, path) ==
    Eval(IF file_exists(g, path)
         THEN passed(check, "Fichier {} trouve")
         ELSE failed(check, "Fichier {} introuvable",
                     "Ajoutez un fichier {} a la racine du projet"),
         <<"file_exists">>)

docker_build_keywords ==
    {"docker build", "docker/build-push-action", "docker-build", "docker compose",
     "docker/setup-buildx"}

check_docker_build_ci(g, check) ==
    LET wf == aggregate_workflow_content(g)
        content_lower == to_lowercase(wf.content)
        has_docker_build == contains_any(content_lower, docker_build_keywords)
    IN  Eval(IF has_docker_build
             THEN passed(check, "Build Docker detecte dans la CI")
             ELSE failed(check, "Aucune etape de build Docker dans les workflows",
                         "Ajoutez 'docker build' ou l'action 'docker/build-push-action' dans votre pipeline"),
             wf.calls)

secret_patterns == {"AKIA", "sk-", "ghp_", "password: ", "passwd", "secret_key"}

\* The patterns are searched in the workflow text as fetched, not lower-cased.
check_no_secrets(g, check) ==
    LET wf == aggregate_workflow_content(g)
        found_secrets == found_in(wf.content, secret_patterns)
    IN  Eval(IF found_secrets = {}
             THEN passed(check, "Aucun secret hardcode detecte dans les workflows")
             ELSE failed(check, "Patterns suspects detectes : {}",
                         "Utilisez des GitHub Secrets (${{ secrets.MY_SECRET }}) au lieu de valeurs en dur"),
             wf.calls)

security_tools ==
    {"trivy", "snyk", "bandit", "safety", "codeql", "semgrep", "sonarcloud",
     "sonarqube", "dependabot", "grype", "anchore", "checkov", "tfsec"}

check_security_scan(g, check) ==
    LET wf == aggregate_workflow_content(g)
        content_lower == to_lowercase(wf.content)
        found == found_in(content_lower, security_tools)
    IN  Eval(IF found = {}
             THEN failed(check, "Aucun outil de scan de securite detecte",
                         "Ajoutez Trivy, Snyk, CodeQL ou un autre scanner de securite dans votre pipeline")
             ELSE passed(check, "Outil(s) de securite detecte(s) : {}"),
             wf.calls)

coverage_tools ==
    {"coverage", "codecov", "coveralls", "lcov", "tarpaulin", "jacoco", "istanbul",
     "nyc", "cobertura"}

check_coverage(g, check) ==
    LET wf == aggregate_workflow_content(g)
        content_lower == to_lowercase(wf.content)
        found == found_in(content_lower, coverage_tools)
    IN  Eval(IF found = {}
             THEN failed(check, "Aucune configuration de coverage detectee",
                         "Ajoutez un outil de coverage (codecov, tarpaulin, istanbul) dans votre CI")
             ELSE passed(check, "Coverage detectee : {}"),
             wf.calls)

\* Every file_exists of the two || chains is the same Gateway operation.
check_dependabot(g, check) ==
    LET has_dependabot == file_exists(g, ".github/dependabot.yml")
                          \/ file_exists(g, ".github/dependabot.yaml")
        has_renovate == file_exists(g, "renovate.json")
                        \/ file_exists(g, ".github/renovate.json")
    IN  Eval(IF has_dependabot THEN passed(check, "Dependabot configure")
             ELSE IF has_renovate THEN passed(check, "Renovate configure")
             ELSE failed(check, "Ni Dependabot ni Renovate ne sont configures",
                         "Ajoutez .github/dependabot.yml pour automatiser les mises a jour de dependances"),
             <<"file_exists">>)

\* Faulty variant: a 404 is handled like every other error.
check_branch_protection_no_404(g, check) ==
    LET protection == fetch_branch_protection(g, "main")
    IN  Eval(IF protection.ok
             THEN IF protection.value.required_pull_request_reviews # None
                  THEN passed(check, "Branche main protegee avec PR reviews obligatoires")
                  ELSE warning(check, "Protection de branche activee mais sans review obligatoire",
                               "Activez 'Require pull request reviews' dans les settings de protection")
             ELSE skipped(check, "Token requis pour verifier la protection de branche (scope 'repo')"),
             <<"fetch_branch_protection">>)

check_branch_protection(g, check) ==
    LET protection == fetch_branch_protection(g, "main")
    IN  Eval(IF protection.ok
             THEN IF protection.value.required_pull_request_reviews # None
                  THEN passed(check, "Branche main protegee avec PR reviews obligatoires")
                  ELSE warning(check, "Protection de branche activee mais sans review obligatoire",
                               "Activez 'Require pull request reviews' dans les settings de protection")
             ELSE IF protection.status = 404
             THEN failed(check, "Aucune protection configuree sur main",
                         "Activez la protection de branche dans Settings > Branches > Branch protection rules")
             ELSE skipped(check, "Token requis pour verifier la protection de branche (scope 'repo')"),
             <<"fetch_branch_protection">>)

check_pipeline_speed(g, check) ==
    LET runs == fetch_workflow_runs(g, 10)
    IN  Eval(IF runs.ok
             THEN LET completed_runs ==
                          SelectSeq(runs.value,
                                    LAMBDA r : r.conclusion # None /\ r.run_started_at # None
                                               /\ r.updated_at # None)
                  IN  IF completed_runs = <<>>
                      THEN skipped(check, "Pas assez de runs pour evaluer la vitesse")
                      ELSE passed(check, "{} runs recents analyses - verifiez les durees dans l'onglet Actions de votre repo")
             ELSE skipped(check, "Impossible de recuperer les runs"),
             <<"fetch_workflow_runs">>)

env_indicators ==
    {"environment:", "staging", "production", "prod", "dev", "deploy-staging",
     "deploy-prod"}

\* Faulty variant: one indicator is enough.
check_multi_environment_any(g, check) ==
    LET wf == aggregate_workflow_content(g)
        content_lower == to_lowercase(wf.content)
        found == found_in(content_lower, env_indicators)
        has_multi_env == Cardinality(found) >= 1
    IN  Eval(IF has_multi_env
             THEN passed(check, "Indicateurs multi-environnement detectes : {}")
             ELSE failed(check, "Pas de gestion multi-environnement detectee",
                         "Configurez des environnements GitHub (staging, production) dans votre pipeline"),
             wf.calls)

check_multi_environment(g, check) ==
    LET wf == aggregate_workflow_content(g)
        content_lower == to_lowercase(wf.content)
        found == found_in(content_lower, env_indicators)
        has_multi_env == Cardinality(found) >= 2
    IN  Eval(IF has_multi_env
             THEN passed(check, "Indicateurs multi-environnement detectes : {}")
             ELSE failed(check, "Pas de gestion multi-environnement detectee",
                         "Configurez des environnements GitHub (staging, production) dans votre pipeline"),
             wf.calls)

deploy_indicators ==
    {"deploy", "publish", "release", "gh-pages", "pages", "aws", "azure", "gcloud",
     "heroku", "vercel", "netlify", "render", "fly.io"}

\* Faulty variant: a deploy keyword without push trigger is reported as no deployment.
check_auto_deploy_no_warning(g, check) ==
    LET wf == aggregate_workflow_content(g)
        content_lower == to_lowercase(wf.content)
        has_push_trigger == contains(content_lower, "on:\n  push:")
                            \/ contains(content_lower, "on: [push")
        has_deploy == contains_any(content_lower, deploy_indicators)
    IN  Eval(IF has_push_trigger /\ has_deploy
             THEN passed(check, "Deploiement automatique detecte sur push")
             ELSE failed(check, "Aucune etape de deploiement detectee",
                         "Ajoutez un job de deploiement automatique dans votre pipeline CI/CD"),
             wf.calls)

check_auto_deploy(g, check) ==
    LET wf == aggregate_workflow_content(g)
        content_lower == to_lowercase(wf.content)
        has_push_trigger == contains(content_lower, "on:\n  push:")
                            \/ contains(content_lower, "on: [push")
        has_deploy == contains_any(content_lower, deploy_indicators)
    IN  Eval(IF has_push_trigger /\ has_deploy
             THEN passed(check, "Deploiement automatique detecte sur push")
             ELSE IF has_deploy
             THEN warning(check, "Etape de deploiement trouvee mais pas declenchee automatiquement",
                          "Configurez un trigger 'on: push' sur la branche main pour le deploiement auto")
             ELSE failed(check, "Aucune etape de deploiement detectee",
                         "Ajoutez un job de deploiement automatique dans votre pipeline CI/CD"),
             wf.calls)

check_codeowners(g, check) ==
    LET exists == file_exists(g, "CODEOWNERS")
                  \/ file_exists(g, ".github/CODEOWNERS")
                  \/ file_exists(g, "docs/CODEOWNERS")
    IN  Eval(IF exists THEN passed(check, "Fichier CODEOWNERS trouve")
             ELSE failed(check, "Aucun fichier CODEOWNERS trouve",
                         "Ajoutez un fichier CODEOWNERS pour definir les proprietaires du code"),
             <<"file_exists">>)

tests_pass_keywords ==
    {"test", "pytest", "jest", "cargo test", "go test", "npm test", "yarn test",
     "phpunit", "rspec"}

\* Faulty variant: the runs are fetched before the test step is looked for, and
\* a Gateway error skips the check.
check_tests_pass_fetches_first(g, check) ==
    LET wf == aggregate_workflow_content(g)
        content_lower == to_lowercase(wf.content)
        has_test_step == contains_any(content_lower, tests_pass_keywords)
        runs == fetch_workflow_runs(g, 5)
    IN  Eval(IF ~runs.ok THEN skipped(check, "Impossible de recuperer les runs")
             ELSE IF ~has_test_step
             THEN failed(check, "Aucune etape de test detectee dans les workflows",
                         "Ajoutez une etape de test dans votre pipeline avant de verifier qu'ils passent")
             ELSE IF runs.value = <<>> THEN skipped(check, "Aucun run trouve sur main")
             ELSE IF runs.value[1].conclusion = Some("success")
             THEN passed(check, "Pipeline '{}' vert - etapes de test detectees et executees")
             ELSE IF runs.value[1].conclusion # None
             THEN failed(check, "Pipeline termine avec le statut '{}' - les tests ont peut-etre echoue",
                         "Corrigez les tests en echec pour passer ce check")
             ELSE skipped(check, "Run encore en cours"),
             wf.calls \o <<"fetch_workflow_runs">>)

check_tests_pass(g, check) ==
    LET wf == aggregate_workflow_content(g)
        content_lower == to_lowercase(wf.content)
        has_test_step == contains_any(content_lower, tests_pass_keywords)
        runs == fetch_workflow_runs(g, 5)
    IN  IF ~has_test_step
        THEN Eval(failed(check, "Aucune etape de test detectee dans les workflows",
                         "Ajoutez une etape de test dans votre pipeline avant de verifier qu'ils passent"),
                  wf.calls)
        ELSE Eval(IF runs.ok
                  THEN IF runs.value = <<>>
                       THEN skipped(check, "Aucun run trouve sur main")
                       ELSE LET latest == runs.value[1]
                            IN  IF latest.conclusion = Some("success")
                                THEN passed(check, "Pipeline '{}' vert - etapes de test detectees et executees")
                                ELSE IF latest.conclusion # None
                                THEN failed(check, "Pipeline termine avec le statut '{}' - les tests ont peut-etre echoue",
                                            "Corrigez les tests en echec pour passer ce check")
                                ELSE skipped(check, "Run encore en cours")
                  ELSE skipped(check, "Impossible de recuperer les runs"),
                  wf.calls \o <<"fetch_workflow_runs">>)

check_ghcr_published(g, check) ==
    LET wf == aggregate_workflow_content(g)
        content_lower == to_lowercase(wf.content)
        has_ghcr == contains(content_lower, "ghcr.io")
                    \/ contains(content_lower, "github container registry")
                    \/ (contains(content_lower, "docker/build-push-action")
                        /\ contains(content_lower, "registry: ghcr"))
        has_push == contains(content_lower, "push: true")
                    \/ contains(content_lower, "docker push")
                    \/ contains(content_lower, "build-push-action")
    IN  Eval(IF has_ghcr /\ has_push
             THEN passed(check, "Publication vers ghcr.io detectee dans le pipeline")
             ELSE IF has_ghcr
             THEN warning(check, "Reference a ghcr.io trouvee mais pas d'etape de push explicite",
                          "Assurez-vous d'utiliser 'docker/build-push-action' avec 'push: true' et 'registry: ghcr.io'")
             ELSE failed(check, "Aucune publication vers GHCR detectee",
                         "Ajoutez 'docker/build-push-action' avec 'registry: ghcr.io' pour publier votre image"),
             wf.calls)

quality_tools ==
    {"sonarcloud", "sonarqube", "sonar-scanner", "sonarqube-scan-action",
     "codeclimate", "codacy", "codecov", "deepsource"}

check_quality_gate(g, check) ==
    LET wf == aggregate_workflow_content(g)
        content_lower == to_lowercase(wf.content)
        found == found_in(content_lower, quality_tools)
    IN  Eval(IF found = {}
             THEN failed(check, "Aucun outil de quality gate detecte",
                         "Integrez SonarCloud, CodeClimate ou Codacy dans votre pipeline pour controler la qualite du code")
             ELSE passed(check, "Quality gate detecte : {}"),
             wf.calls)

setup_cache_keywords ==
    {"cache: npm", "cache: yarn", "cache: pnpm", "cache: pip", "cache: poetry",
     "cache: 'npm'", "cache: 'pip'", "cache: gradle", "cache: maven"}

docker_cache_keywords == {"cache-from", "cache-to", "buildkit"}

check_ci_cache(g, check) ==
    LET wf == aggregate_workflow_content(g)
        content_lower == to_lowercase(wf.content)
        has_actions_cache == contains(content_lower, "actions/cache")
        has_setup_cache == contains_any(content_lower, setup_cache_keywords)
        has_docker_cache == contains_any(content_lower, docker_cache_keywords)
        cache_type == IF has_actions_cache THEN "actions/cache"
                      ELSE IF has_setup_cache THEN "cache integre (setup-node/setup-python/...)"
                      ELSE IF has_docker_cache THEN "Docker layer cache"
                      ELSE ""
    IN  Eval(IF cache_type # ""
             THEN passed(check, "Cache CI detecte : {}")
             ELSE failed(check, "Aucun mecanisme de cache dans le pipeline",
                         "Ajoutez 'actions/cache' ou activez le cache dans 'actions/setup-node' (cache: npm) pour accelerer vos builds"),
             wf.calls)

notification_indicators ==
    {"discord-webhook", "discord_webhook", "slack-webhook", "slack_webhook",
     "slackapi/", "8398a7/action-slack", "rtcamp/action-slack",
     "rjstone/discord-webhook", "appleboy/telegram-action", "act10ns/slack",
     "notify", "send-message"}

check_ci_notifications(g, check) ==
    LET wf == aggregate_workflow_content(g)
        content_lower == to_lowercase(wf.content)
        found == found_in(content_lower, notification_indicators)
    IN  Eval(IF found = {}
             THEN failed(check, "Aucune notification CI detectee (Discord/Slack/Telegram)",
                         "Ajoutez une etape de notification dans votre pipeline (ex: '8398a7/action-slack' ou 'rjstone/discord-webhook')")
             ELSE passed(check, "Notification CI configuree : {}"),
             wf.calls)

\* The workflow text is searched as fetched, not lower-cased.
check_matrix_testing(g, check) ==
    LET wf == aggregate_workflow_content(g)
        workflow_content == wf.content
        has_matrix == (contains(workflow_content, "strategy:")
                       /\ contains(workflow_content, "matrix:"))
                      \/ contains(workflow_content, "strategy:\n    matrix:")
        detail == IF contains(workflow_content, "node-version")
                     \/ contains(workflow_content, "node_version")
                  THEN "Matrice detectee - versions Node.js testees"
                  ELSE IF contains(workflow_content, "python-version")
                          \/ contains(workflow_content, "python_version")
                  THEN "Matrice detectee - versions Python testees"
                  ELSE IF contains(workflow_content, "rust")
                          \/ contains(workflow_content, "toolchain")
                  THEN "Matrice detectee - toolchains Rust testes"
                  ELSE IF contains(workflow_content, "os:")
                          \/ contains(workflow_content, "runs-on:")
                  THEN "Matrice detectee - multi-OS"
                  ELSE "Strategie de matrix detectee dans le pipeline"
    IN  Eval(IF has_matrix THEN passed(check, detail)
             ELSE failed(check, "Aucune strategie de matrix detectee",
                         "Ajoutez 'strategy: matrix:' dans votre workflow pour tester sur plusieurs versions ou OS"),
             wf.calls)

\* The workflow text is searched as fetched, not lower-cased.
check_reusable_workflows(g, check) ==
    LET wf == aggregate_workflow_content(g)
        workflow_content == wf.content
        defines_reusable == contains(workflow_content, "workflow_call:")
        calls_reusable == contains(workflow_content, "uses: ./.github/workflows/")
                          \/ contains(workflow_content, "uses: './.github/workflows/")
    IN  Eval(IF defines_reusable
             THEN passed(check, "Workflow reutilisable defini (workflow_call) - peut etre invoque par d'autres repos")
             ELSE IF calls_reusable
             THEN passed(check, "Workflow reutilisable appele (uses: ./.github/workflows/) - bonne pratique DRY")
             ELSE failed(check, "Aucun workflow reutilisable trouve",
                         "Creez un workflow avec 'on: workflow_call:' ou appelez-en un avec 'uses: ./.github/workflows/xxx.yml'"),
             wf.calls)

release_tool_keywords ==
    {"release-please", "semantic-release", "create-release", "actions/create-release",
     "gh release create"}

check_release_tagging(g, check) ==
    LET releases == fetch_releases(g, 5)
        wf == aggregate_workflow_content(g)
        content_lower == to_lowercase(wf.content)
    IN  IF releases.ok /\ releases.value # <<>>
        THEN Eval(passed(check, "{} release(s) trouvee(s) - derniere : {}"),
                  <<"fetch_releases">>)
        ELSE Eval(IF contains_any(content_lower, release_tool_keywords)
                  THEN warning(check, "Outil de release detecte dans CI mais aucune release publiee encore",
                               "Effectuez un premier merge sur main pour declencher la creation de release")
                  ELSE failed(check, "Aucune release ou tag GitHub trouve",
                              "Creez des releases GitHub pour versionner votre projet (ex: avec 'release-please' ou manuellement)"),
                  <<"fetch_releases">> \o wf.calls)

smoke_indicators ==
    {"smoke", "e2e", "end-to-end", "end_to_end", "integration-test", "post-deploy",
     "post_deploy", "acceptance", "health-check", "healthcheck", "playwright",
     "cypress", "puppeteer"}

check_smoke_tests(g, check) ==
    LET wf == aggregate_workflow_content(g)
        content_lower == to_lowercase(wf.content)
        found == found_in(content_lower, smoke_indicators)
    IN  Eval(IF found = {}
             THEN failed(check, "Aucun test smoke ou e2e detecte dans le pipeline",
                         "Ajoutez des tests smoke apres le deploiement (ex: curl sur /healthz, Playwright, Cypress)")
             ELSE passed(check, "Tests smoke/e2e detectes : {}"),
             wf.calls)

prefixes ==
    << <<"f", "e", "a", "t">>, <<"f", "i", "x">>, <<"d", "o", "c", "s">>, <<"s", "t", "y", "l", "e">>, <<"r", "e", "f", "a", "c", "t", "o", "r">>, <<"t", "e", "s", "t">>, <<"c", "h", "o", "r", "e">>, <<"c", "i">>,
       <<"b", "u", "i", "l", "d">>, <<"p", "e", "r", "f">>, <<"r", "e", "v", "e", "r", "t">> >>

\* Faulty variant: any colon after the type is taken for the separator.
matches_prefix_any_colon(subject, prefix) ==
    /\ starts_with(subject, prefix)
    /\ find(slice_from(subject, Len(prefix) + 1), ":") # 0

\* The tail of is_conventional_commit's loop body, for one prefix.
matches_prefix(subject, prefix) ==
    /\ starts_with(subject, prefix)
    /\ LET rest == slice_from(subject, Len(prefix) + 1)
       IN  \/ starts_with(rest, <<":", " ">>)
           \/ starts_with(rest, <<"!", ":", " ">>)
           \/ /\ starts_with(rest, <<"(">>)
              /\ find(rest, ")") # 0
              /\ LET after == slice_from(rest, find(rest, ")") + 1)
                 IN  starts_with(after, <<":", " ">>) \/ starts_with(after, <<"!", ":", " ">>)

is_conventional_commit(message) ==
    LET subject == IF lines(message) # <<>> THEN lines(message)[1] ELSE message
    IN  \E i \in DOMAIN prefixes : matches_prefix(subject, prefixes[i])

merge_prefix_re == {<<"M", "e", "r", "g", "e", " ", "p", "u", "l", "l", " ", "r", "e", "q", "u", "e", "s", "t">>, <<"M", "e", "r", "g", "e", " ", "b", "r", "a", "n", "c", "h">>, <<"M", "e", "r", "g", "e", " ", "r", "e", "m", "o", "t", "e">>}

\* Faulty variant: the merge commits are counted among the commits.
check_conventional_commits_with_merges(g, check) ==
    LET commits == fetch_commits(g, 20)
    IN  Eval(IF commits.ok /\ commits.value # <<>>
             THEN LET non_merge ==
                          SelectSeq(commits.value,
                                    LAMBDA c : ~\E p \in merge_prefix_re :
                                                   starts_with(c.commit.message, p))
                      conventional_count ==
                          Len(SelectSeq(non_merge,
                                        LAMBDA c : is_conventional_commit(c.commit.message)))
                  IN  IF non_merge = <<>>
                      THEN skipped(check, "Seuls des commits de merge trouves")
                      ELSE LET pct == (conventional_count * 100) \div Len(commits.value)
                           IN  IF pct >= 80
                               THEN passed(check, "{}/{} commits conventionnels ({}%)")
                               ELSE failed(check, "{}/{} commits conventionnels ({}% < 80%)",
                                           "Respectez la convention Conventional Commits : feat:, fix:, chore:, ci:, docs:, etc.")
             ELSE skipped(check, "Impossible de recuperer les commits"),
             <<"fetch_commits">>)

check_conventional_commits(g, check) ==
    LET commits == fetch_commits(g, 20)
    IN  Eval(IF commits.ok /\ commits.value # <<>>
             THEN LET non_merge ==
                          SelectSeq(commits.value,
                                    LAMBDA c : ~\E p \in merge_prefix_re :
                                                   starts_with(c.commit.message, p))
                      conventional_count ==
                          Len(SelectSeq(non_merge,
                                        LAMBDA c : is_conventional_commit(c.commit.message)))
                  IN  IF non_merge = <<>>
                      THEN skipped(check, "Seuls des commits de merge trouves")
                      ELSE LET pct == (conventional_count * 100) \div Len(non_merge)
                           IN  IF pct >= 80
                               THEN passed(check, "{}/{} commits conventionnels ({}%)")
                               ELSE failed(check, "{}/{} commits conventionnels ({}% < 80%)",
                                           "Respectez la convention Conventional Commits : feat:, fix:, chore:, ci:, docs:, etc.")
             ELSE skipped(check, "Impossible de recuperer les commits"),
             <<"fetch_commits">>)

changelog_tools ==
    {"release-please", "semantic-release", "conventional-changelog",
     "auto-changelog", "standard-version", "changesets"}

check_auto_changelog(g, check) ==
    LET wf == aggregate_workflow_content(g)
        content_lower == to_lowercase(wf.content)
        found == found_in(content_lower, changelog_tools)
        changelog == fetch_raw_file(g, "CHANGELOG.md")
        version_headers ==
            Len(SelectSeq(lines(changelog.value),
                          LAMBDA l : starts_with(l, <<"#", "#", " ", "[">>) \/ starts_with(l, <<"#", "#", " ", "v">>)))
    IN  IF found # {}
        THEN Eval(passed(check, "Outil de changelog automatise detecte : {}"), wf.calls)
        ELSE Eval(IF changelog.ok /\ version_headers >= 2
                  THEN passed(check, "CHANGELOG.md trouve avec {} entrees de version")
                  ELSE failed(check, "Aucun outil de changelog automatise trouve",
                              "Configurez 'release-please' ou 'semantic-release' dans votre pipeline pour generer un changelog automatique"),
                  wf.calls \o <<"fetch_raw_file">>)

check_rollback_strategy(g, check) ==
    LET wf == aggregate_workflow_content(g)
        workflow_content == wf.content
        content_lower == to_lowercase(workflow_content)
        has_rollback_file == file_exists(g, ".github/workflows/rollback.yml")
                             \/ file_exists(g, ".github/workflows/rollback.yaml")
                             \/ file_exists(g, ".github/workflows/revert.yml")
    IN  Eval(IF has_rollback_file
             THEN passed(check, "Workflow de rollback dedie detecte")
             ELSE IF contains(content_lower, "rollback")
                     \/ contains(content_lower, "undo-deploy")
                     \/ contains(content_lower, "undo_deploy")
             THEN passed(check, "Mecanisme de rollback detecte dans les workflows")
             ELSE IF contains(workflow_content, "workflow_dispatch:")
                     /\ (contains(content_lower, "revert") \/ contains(content_lower, "rollback"))
             THEN passed(check, "workflow_dispatch avec option de revert detecte")
             ELSE IF contains(workflow_content, "workflow_dispatch:")
             THEN warning(check, "workflow_dispatch detecte (redeploiement manuel possible) mais pas de rollback explicite",
                          "Ajoutez un workflow dedie au rollback ou un input 'rollback' dans workflow_dispatch")
             ELSE failed(check, "Aucune strategie de rollback detectee",
                         "Creez un workflow .github/workflows/rollback.yml ou ajoutez un trigger workflow_dispatch avec option de rollback"),
             wf.calls \o <<"file_exists">>)

\* Faulty variant: an id without evaluator is reported as a failed check.
not_implemented_fails(check) ==
    Eval(failed(check, "Check non implemente", "Check non implemente"), <<>>)

\* The `_` arm of run_check.
not_implemented(check) == Eval(skipped(check, "Check non implemente"), <<>>)

run_check(g, check) ==
    CASE check.id = "pipeline_exists" -> check_pipeline_exists(g, check)
      [] check.id = "pipeline_green" -> check_pipeline_green(g, check)
      [] check.id = "tests_exist" -> check_tests_exist(g, check)
      [] check.id = "lint_in_ci" -> check_lint_in_ci(g, check)
      [] check.id = "dockerfile_exists" -> check_file_exists(g, check, "Dockerfile")
      [] check.id = "docker_build_ci" -> check_docker_build_ci(g, check)
      [] check.id = "no_secrets_in_code" -> check_no_secrets(g, check)
      [] check.id = "readme_exists" -> check_file_exists(g, check, "README.md")
      [] check.id = "security_scan" -> check_security_scan(g, check)
      [] check.id = "coverage_configured" -> check_coverage(g, check)
      [] check.id = "dependabot_configured" -> check_dependabot(g, check)
      [] check.id = "branch_protection" -> check_branch_protection(g, check)
      [] check.id = "pipeline_fast" -> check_pipeline_speed(g, check)
      [] check.id = "multi_environment" -> check_multi_environment(g, check)
      [] check.id = "auto_deploy" -> check_auto_deploy(g, check)
      [] check.id = "codeowners_exists" -> check_codeowners(g, check)
      [] check.id = "gitignore_exists" -> check_file_exists(g, check, ".gitignore")
      [] check.id = "tests_pass" -> check_tests_pass(g, check)
      [] check.id = "ghcr_published" -> check_ghcr_published(g, check)
      [] check.id = "quality_gate" -> check_quality_gate(g, check)
      [] check.id = "ci_cache" -> check_ci_cache(g, check)
      [] check.id = "ci_notifications" -> check_ci_notifications(g, check)
      [] check.id = "matrix_testing" -> check_matrix_testing(g, check)
      [] check.id = "reusable_workflows" -> check_reusable_workflows(g, check)
      [] check.id = "release_tagging" -> check_release_tagging(g, check)
      [] check.id = "smoke_tests" -> check_smoke_tests(g, check)
      [] check.id = "conventional_commits" -> check_conventional_commits(g, check)
      [] check.id = "auto_changelog" -> check_auto_changelog(g, check)
      [] check.id = "rollback_strategy" -> check_rollback_strategy(g, check)
      [] OTHER -> not_implemented(check)

----------------------------------------------------------------------------
(* checks/engine.rs *)

\* format!("{}/{}", self.owner, self.repo)
full_name(repo) == repo.owner \o <<"/">> \o repo.repo

category_order == <<"Fundamentals", "Intermediate", "Advanced", "Bonus">>

\* grouped.remove(cat).unwrap_or_default(): the results pushed under cat, in the
\* order of `results`.
grouped(rs, cat) == SelectSeq(rs, LAMBDA r : r.check.category = cat)

\* Faulty variant: only Passed is counted as a pass.
count_passed_strict(cat_results) ==
    Len(SelectSeq(cat_results, LAMBDA r : r.status = "Passed"))

\* Faulty variant: every result is counted as a pass, Skipped included.
count_passed_all(cat_results) == Len(cat_results)

count_passed(cat_results) ==
    Len(SelectSeq(cat_results, LAMBDA r : r.status \in {"Passed", "Warning"}))

\* Faulty variant: every result is counted in the total, Skipped included.
count_total_all(cat_results) == Len(cat_results)

count_total(cat_results) ==
    Len(SelectSeq(cat_results, LAMBDA r : r.status # "Skipped"))

CategoryScore(cat, cat_results) ==
    [category |-> cat, passed |-> count_passed(cat_results),
     total |-> count_total(cat_results), results |-> cat_results]

RECURSIVE appearance(_, _)
\* The categories of rs in the order of their first result.
appearance(rs, seen) ==
    IF rs = <<>> THEN <<>>
    ELSE IF Head(rs).check.category \in seen THEN appearance(Tail(rs), seen)
    ELSE <<Head(rs).check.category>>
         \o appearance(Tail(rs), seen \cup {Head(rs).check.category})

\* Faulty variant: the categories are taken from the grouped results as they come,
\* instead of from category_order.
build_categories_by_appearance(rs) ==
    [i \in DOMAIN appearance(rs, {}) |->
        CategoryScore(appearance(rs, {})[i], grouped(rs, appearance(rs, {})[i]))]

build_categories(rs) ==
    [i \in DOMAIN category_order |->
        CategoryScore(category_order[i], grouped(rs, category_order[i]))]

\* Faulty variant: `=` instead of `+=`.
accumulate_overwrite(categories, field, n) ==
    IF n = 0 THEN 0 ELSE categories[n][field]

RECURSIVE accumulate(_, _, _)
\* global_passed += passed / global_total += total over the first n categories.
accumulate(categories, field, n) ==
    IF n = 0 THEN 0
    ELSE accumulate(categories, field, n - 1) + categories[n][field]

ScoreReport(g, rs) ==
    LET categories == build_categories(rs)
    IN  [repository |-> full_name(g.repo),
         passed |-> accumulate(categories, "passed", Len(categories)),
         total |-> accumulate(categories, "total", Len(categories)),
         categories |-> categories,
         analyzed_at |-> g.now]

----------------------------------------------------------------------------
(* models/score.rs, components/score_gauge.rs, services/ai_client.rs *)

\* An f64 percentage is kept as the exact ratio num/den (den > 0).  For totals
\* below 40 the f64 quotient times 100.0 compares with 50.0, 70.0 and 90.0, and
\* rounds, as the exact ratio does.
Ratio(num, den) == [num |-> num, den |-> den]

\* pct >= k, for a whole number k.
at_least(pct, k) == pct.num >= k * pct.den

\* CategoryScore::percentage and ScoreReport::percentage.
percentage(score) ==
    IF score.total = 0 THEN Ratio(0, 1) ELSE Ratio(score.passed * 100, score.total)

grade_color(report) ==
    LET pct == percentage(report)
    IN  IF at_least(pct, 90) THEN "#0cce6b"
        ELSE IF at_least(pct, 50) THEN "#ffa400"
        ELSE "#ff4e42"

grade_label(report) ==
    LET pct == percentage(report)
    IN  IF at_least(pct, 90) THEN "Excellent"
        ELSE IF at_least(pct, 70) THEN "Bon"
        ELSE IF at_least(pct, 50) THEN "A ameliorer"
        ELSE "Insuffisant"

\* f64::round followed by `as u32`: the nearest whole number, halves upwards.
round(pct) == (2 * pct.num + pct.den) \div (2 * pct.den)

\* score_gauge, lines 11-33: the number, the colour and the badge of the gauge.
score_gauge(props) ==
    LET shown == IF props.total > 0
                 THEN round(Ratio(props.passed * 100, props.total))
                 ELSE 0
    IN  [percentage |-> shown,
         color |-> IF shown >= 90 THEN "#0cce6b"
                   ELSE IF shown >= 50 THEN "#ffa400"
                   ELSE "#ff4e42",
         label |-> IF shown >= 90 THEN "Excellent"
                   ELSE IF shown >= 70 THEN "Bon"
                   ELSE IF shown >= 50 THEN "A ameliorer"
                   ELSE "Insuffisant"]

\* u32::saturating_sub
saturating_sub(a, b) == IF a >= b THEN a - b ELSE 0

\* Faulty variant: the results with a Warning are listed with the failed ones.
RECURSIVE collect_unpassed_checks(_, _)
collect_unpassed_checks(categories, n) ==
    IF n = 0 THEN <<>>
    ELSE collect_unpassed_checks(categories, n - 1)
         \o SelectSeq(categories[n].results, LAMBDA r : r.status \in {"Failed", "Warning"})

\* AiClient::collect_failed_checks: one line for every Failed result, category
\* after category.
RECURSIVE collect_failed_checks(_, _)
collect_failed_checks(categories, n) ==
    IF n = 0 THEN <<>>
    ELSE collect_failed_checks(categories, n - 1)
         \o SelectSeq(categories[n].results, LAMBDA r : r.status = "Failed")

\* AiClient::build_prompt: the repository, the two numbers of the line
\* "Checks echoues ({} sur {})" and the lines of the failed checks.
build_prompt(report) ==
    [repository |-> report.repository,
     failed |-> saturating_sub(report.total, report.passed),
     total |-> report.total,
     failed_checks |-> collect_failed_checks(report.categories, Len(report.categories))]

----------------------------------------------------------------------------
(* The task of on_analyze *)

\* The operations of `called` up to the first one that is never answered.
RECURSIVE made(_, _)
made(g, called) ==
    IF called = <<>> THEN <<>>
    ELSE IF Head(called) \in g.down /\ ~g.answers THEN <<Head(called)>>
    ELSE <<Head(called)>> \o made(g, Tail(called))

\* Whether a future awaiting the operations `called` is never woken.
never_resolves(g, called) == \E i \in DOMAIN called : called[i] \in g.down /\ ~g.answers

Range(s) == {s[i] : i \in DOMAIN s}

NotReturned == <<>>

----------------------------------------------------------------------------
(* components/app.rs, models/ai_review.rs, services/ai_client.rs *)

\* AnalysisState
Idle == [kind |-> "Idle"]

Loading == [kind |-> "Loading"]

Done(report) == [kind |-> "Done", report |-> report]

Error(message) == [kind |-> "Error", message |-> message]

\* AiReviewState
AiIdle == [kind |-> "Idle"]

AiLoading == [kind |-> "Loading"]

AiDone(review) == [kind |-> "Done", review |-> review]

AiUnavailable == [kind |-> "Unavailable"]

AiError(message) == [kind |-> "Error", message |-> message]

\* Faulty variant: a client is built without a token.
AiClient_new_anonymous(pat) == Some([token |-> IF pat = None THEN "" ELSE pat[1]])

\* AiClient::new: None when no token is given.
AiClient_new(pat) == IF pat = None THEN None ELSE Some([token |-> pat[1]])

\* results, lines 21-27: the initial AI review state of a mounted Results.
initial_ai_state(pat) == IF pat # None THEN AiIdle ELSE AiUnavailable

\* Faulty variant: the search bar is never told that an analysis is running.
is_loading_never == FALSE

\* app, line 68: the is_loading property of the search bar, which disables the
\* input and the submit button.
is_loading == state = Loading

\* The Results component is dropped with the report: its AI review state is
\* gone and the review tasks it spawned can no longer set it.
unmounted(tasks_) == [i \in DOMAIN tasks_ |-> [tasks_[i] EXCEPT !.mounted = FALSE]]

\* Faulty variant: an error of the task is dropped, the state stays as it is.
Settle_drops_error(outcome) ==
    /\ state' = IF outcome.kind = "Error" THEN state ELSE outcome
    /\ tasks' = tasks - 1
    /\ ai_state' = IF outcome.kind = "Done" THEN Some(initial_ai_state(token)) ELSE None
    /\ UNCHANGED <<token, reviews, ai_calls, requests>>

\* app.rs, lines 41, 48 and 49: the task sets the state and ends; the view is
\* rendered again, a Done state mounts Results.
Settle(outcome) ==
    /\ state' = outcome
    /\ tasks' = tasks - 1
    /\ ai_state' = IF outcome.kind = "Done" THEN Some(initial_ai_state(token)) ELSE None
    /\ UNCHANGED <<token, reviews, ai_calls, requests>>

\* The task goes on: the state is not set.
Pending == UNCHANGED <<state, tasks, token, ai_state, reviews, ai_calls, requests>>

\* app.rs, lines 37-44: the task spawned by on_analyze parses the URL; an error
\* ends the task, otherwise analyze is called with the identifier.
ParseRepoUrl ==
    /\ pc = "submitted"
    /\ LET repo == parse_repo_url(url)
       IN  IF repo.ok
           THEN /\ pc' = "start"
                /\ gateway' = [gateway EXCEPT !.repo = repo.value]
                /\ ret' = ret
                /\ Pending
           ELSE /\ pc' = "returned"
                /\ gateway' = gateway
                /\ ret' = <<ParseError(repo.error)>>
                /\ Settle(Error(repo.error))
    /\ UNCHANGED <<url, catalog, results, calls>>

\* Faulty variant: the error of the metadata fetch is not propagated.
FetchMetadata_unchecked ==
    /\ pc = "start"
    /\ calls' = calls \cup {"fetch_repo_metadata"}
    /\ IF never_resolves(gateway, <<"fetch_repo_metadata">>)
       THEN pc' = "awaiting" ELSE pc' = "checks"
    /\ Pending
    /\ UNCHANGED <<url, gateway, catalog, results, ret>>

\* analyze, lines 22-25: the metadata fetch and the `?` on its error; app.rs,
\* line 49: the error becomes the state.
FetchMetadata ==
    /\ pc = "start"
    /\ LET metadata == fetch_repo_metadata(gateway)
       IN  /\ calls' = calls \cup {"fetch_repo_metadata"}
           /\ IF never_resolves(gateway, <<"fetch_repo_metadata">>)
              THEN pc' = "awaiting" /\ ret' = ret /\ Pending
              ELSE IF metadata.ok
              THEN pc' = "checks" /\ ret' = ret /\ Pending
              ELSE /\ pc' = "returned"
                   /\ ret' = <<[ok |-> FALSE, error |-> "Impossible d'acceder au repo : {}"]>>
                   /\ Settle(Error("Impossible d'acceder au repo : {}"))
    /\ UNCHANGED <<url, gateway, catalog, results>>

\* Faulty variant: an evaluator whose Gateway call failed ends analyze with the error.
RunCheck_propagates ==
    /\ pc = "checks"
    /\ Len(results) < Len(catalog)
    /\ LET check == catalog[Len(results) + 1]
           e == run_check(gateway, check)
       IN  /\ calls' = calls \cup Range(made(gateway, e.calls))
           /\ IF never_resolves(gateway, e.calls)
              THEN pc' = "awaiting" /\ results' = results /\ ret' = ret /\ Pending
              ELSE IF Range(e.calls) \cap gateway.down # {}
              THEN /\ pc' = "returned" /\ results' = results
                   /\ ret' = <<[ok |-> FALSE, error |-> "GitHub API error {}: {}"]>>
                   /\ Settle(Error("GitHub API error {}: {}"))
              ELSE pc' = pc /\ results' = Append(results, e.result) /\ ret' = ret /\ Pending
    /\ UNCHANGED <<url, gateway, catalog>>

\* analyze, lines 31-34: one iteration of `for check in &checks`.
RunCheck ==
    /\ pc = "checks"
    /\ Len(results) < Len(catalog)
    /\ LET check == catalog[Len(results) + 1]
           e == run_check(gateway, check)
       IN  /\ calls' = calls \cup Range(made(gateway, e.calls))
           /\ IF never_resolves(gateway, e.calls)
              THEN pc' = "awaiting" /\ results' = results
              ELSE pc' = pc /\ results' = Append(results, e.result)
    /\ Pending
    /\ UNCHANGED <<url, gateway, catalog, ret>>

\* Faulty variant: the report is built as soon as one evaluator is still outstanding.
Aggregate_early ==
    /\ pc = "checks"
    /\ Len(results) >= Len(catalog) - 1
    /\ ret' = <<[ok |-> TRUE, value |-> ScoreReport(gateway, results)]>>
    /\ pc' = "returned"
    /\ Settle(Done(ScoreReport(gateway, results)))
    /\ UNCHANGED <<url, gateway, catalog, results, calls>>

\* analyze, lines 36-86: grouping, scores and the Ok(report); app.rs, line 48:
\* the report becomes the state.
Aggregate ==
    /\ pc = "checks"
    /\ Len(results) = Len(catalog)
    /\ ret' = <<[ok |-> TRUE, value |-> ScoreReport(gateway, results)]>>
    /\ pc' = "returned"
    /\ Settle(Done(ScoreReport(gateway, results)))
    /\ UNCHANGED <<url, gateway, catalog, results, calls>>

Next == FetchMetadata \/ RunCheck \/ Aggregate

\* The task of on_analyze: the URL is parsed, then analyze runs.
SubmitNext == ParseRepoUrl \/ Next

\* The state of the application while the task of on_analyze runs: Loading, no
\* token, no Results mounted.
AnalysisInFlight ==
    /\ state = Loading
    /\ token = None
    /\ tasks = 1
    /\ ai_state = None
    /\ reviews = <<>>
    /\ ai_calls = {}
    /\ requests = 0

SampleUrl == <<"h", "t", "t", "p", "s", ":", "/", "/", "g", "i", "t", "h", "u", "b", ".", "c", "o", "m", "/", "r", "u", "s", "t", "-", "l", "a", "n", "g", "/", "r", "u", "s", "t">>

SampleRepo == [owner |-> <<"r", "u", "s", "t", "-", "l", "a", "n", "g">>, repo |-> <<"r", "u", "s", "t">>]

File(name, text) == [name |-> name, path |-> <<".github/workflows/", name>>, text |-> text]

\* Option<Vec<GithubContent>>: None when the repository has no workflow directory.
WorkflowSamples ==
    { None,
      Some(<<File("notes.txt", T_notes)>>),
      Some(<<File("ci.yml", T_basic)>>),
      Some(<<File("ci.yml", T_basic), File("deploy.yaml", T_deploy), File("notes.txt", T_notes)>>),
      Some(<<File("CI.yml", T_upper)>>),
      Some(<<File("test.yml", T_matrix), File("notes.txt", T_notes)>>) }

Run(conclusion, started, updated) ==
    [name |-> Some("CI"), conclusion |-> conclusion, run_started_at |-> started,
     updated_at |-> updated]

RunsSamples ==
    { <<>>,
      <<Run(Some("success"), Some("2024-05-01T10:00:00Z"), Some("2024-05-01T10:03:00Z"))>>,
      <<Run(Some("failure"), Some("2024-05-02T10:00:00Z"), Some("2024-05-02T10:09:00Z")),
        Run(Some("success"), Some("2024-05-01T10:00:00Z"), Some("2024-05-01T10:03:00Z"))>>,
      <<Run(None, Some("2024-05-03T10:00:00Z"), None),
        Run(Some("success"), Some("2024-05-01T10:00:00Z"), Some("2024-05-01T10:03:00Z"))>>,
      <<Run(Some("success"), Some("2024-05-02T10:00:00Z"), Some("2024-05-02T10:04:00Z")),
        Run(Some("failure"), Some("2024-05-01T10:00:00Z"), Some("2024-05-01T10:03:00Z"))>>,
      <<Run(Some("cancelled"), Some("2024-05-02T10:00:00Z"), Some("2024-05-02T10:01:00Z"))>> }

Commit(message) == [sha |-> "c0ffee", commit |-> [message |-> message]]

\* The rest of a repository: branch protection, files, releases, commits, changelog.
BareRepo ==
    [protection |-> None, files |-> {}, releases |-> <<>>, commits |-> <<>>,
     changelog |-> None]

GrowingRepo ==
    [protection |-> Some([required_pull_request_reviews |-> None]),
     files |-> {"README.md", ".gitignore", ".github/CODEOWNERS", "renovate.json"},
     releases |-> <<[tag_name |-> "v0.1.0"]>>,
     commits |-> <<Commit(<<"f", "e", "a", "t", ":", " ", "a">>), Commit(<<"M", "e", "r", "g", "e", " ", "b", "r", "a", "n", "c", "h", " ", "'", "x", "'">>),
                   Commit(<<"f", "i", "x", "(", "c", "o", "r", "e", ")", "!", ":", " ", "b">>), Commit(<<"u", "p", "d", "a", "t", "e", " ", "s", "t", "u", "f", "f">>)>>,
     changelog |-> Some(<<"#", " ", "C", "h", "a", "n", "g", "e", "l", "o", "g", "\n", "#", "#", " ", "v", "0", ".", "1", ".", "0", "\n", "-", " ", "f", "i", "r", "s", "t", "\n">>)]

MatureRepo ==
    [protection |-> Some([required_pull_request_reviews |-> Some("required")]),
     files |-> {"README.md", ".gitignore", "Dockerfile", "CODEOWNERS",
                ".github/dependabot.yml", ".github/workflows/rollback.yml"},
     releases |-> <<[tag_name |-> "v1.1.0"], [tag_name |-> "v1.0.0"]>>,
     commits |-> <<Commit(<<"M", "e", "r", "g", "e", " ", "p", "u", "l", "l", " ", "r", "e", "q", "u", "e", "s", "t", " ", "#", "7">>), Commit(<<"f", "e", "a", "t", "(", "a", "p", "i", ")", ":", " ", "a", "d", "d", "\n", "\n", "b", "o", "d", "y">>),
                   Commit(<<"c", "h", "o", "r", "e", ":", " ", "b", "u", "m", "p">>)>>,
     changelog |-> Some(<<"#", " ", "C", "h", "a", "n", "g", "e", "l", "o", "g", "\n", "#", "#", " ", "[", "1", ".", "1", ".", "0", "]", "\n", "-", " ", "m", "o", "r", "e", "\n", "#", "#", " ", "[", "1", ".", "0", ".", "0", "]", "\n", "-", " ", "f", "i", "r", "s", "t", "\n">>)]

RepoSamples == {BareRepo, GrowingRepo, MatureRepo}

\* The status of the errors: network error (0), body that cannot be parsed (200),
\* unauthorized, forbidden, not found.
ErrorStatuses == {0, 200, 401, 403, 404}

FaultSets == {d \in SUBSET Endpoints : Cardinality(d) <= MaxFaults}

\* `down` are the operations that fail during the call, all with `status`, or
\* (answers = FALSE) that never answer.
Gateways ==
    { [repo |-> SampleRepo, now |-> "2024-05-04T12:00:00.000Z",
       down |-> d, status |-> s, answers |-> a,
       workflows |-> w, runs |-> r,
       protection |-> x.protection, files |-> x.files, releases |-> x.releases,
       commits |-> x.commits, changelog |-> x.changelog] :
      d \in FaultSets, s \in ErrorStatuses, a \in BOOLEAN,
      w \in WorkflowSamples, r \in RunsSamples, x \in RepoSamples }

Init ==
    /\ gateway \in {g \in Gateways :
                       /\ (g.down = {} \/ ~g.answers) => (g.status = 0 /\ (g.down = {} => g.answers))
                       /\ g.status = 200 => "file_exists" \notin g.down}
    /\ catalog = all_checks
    /\ url = SampleUrl
    /\ pc = "start"
    /\ results = <<>>
    /\ calls = {}
    /\ ret = NotReturned
    /\ AnalysisInFlight

\* Revisions of the catalog: the catalog as it is, the same checks listed in the
\* opposite order, a catalog without two of the categories, a catalog whose only
\* Bonus check has no evaluator, and catalogs with a check that run_check has no
\* arm for.
UnknownCheck(category) ==
    [id |-> "license_exists", category |-> category, max_points |-> 5]

InsertAt(s, k, x) == SubSeq(s, 1, k) \o <<x>> \o SubSeq(s, k + 1, Len(s))

Reverse(s) == [i \in DOMAIN s |-> s[Len(s) + 1 - i]]

CatalogRevisions ==
    {all_checks, Reverse(all_checks),
     SelectSeq(Reverse(all_checks),
               LAMBDA c : c.category \in {"Fundamentals", "Bonus"}),
     SelectSeq(all_checks, LAMBDA c : c.category = "Fundamentals")
        \o <<UnknownCheck("Bonus")>>}
    \cup {InsertAt(all_checks, k, UnknownCheck(category)) :
             k \in {0, 9, Len(all_checks)}, category \in CheckCategory}

InitRevisions ==
    /\ gateway \in {g \in Gateways : g.down = {} /\ g.status = 0 /\ g.answers}
    /\ catalog \in CatalogRevisions
    /\ url = SampleUrl
    /\ pc = "start"
    /\ results = <<>>
    /\ calls = {}
    /\ ret = NotReturned
    /\ AnalysisInFlight

Spec == Init /\ [][Next]_vars

\* analyze over the revisions of the catalog, every Gateway operation available.
RevisionSpec == InitRevisions /\ [][Next]_vars

\* The files a workflow directory is made of, and the directories: none, or up
\* to MaxFiles of the files in any order.
WorkflowFiles ==
    {File("ci.yml", T_basic), File("deploy.yaml", T_deploy), File("deploy.yaml", T_DEPLOY),
     File("CI.yml", T_upper), File("CI.yml", T_lower), File("test.yml", T_matrix),
     File("staging.yml", T_staging), File("production.yml", T_production),
     File("notes.txt", T_notes)}

WorkflowDirectories ==
    {None} \cup {Some(files) : files \in UNION {[1..n -> WorkflowFiles] : n \in 0..MaxFiles}}

\* One repository with the workflow directory w, every Gateway operation available.
WorkflowGateway(w) ==
    [repo |-> SampleRepo, now |-> "2024-05-04T12:00:00.000Z",
     down |-> {}, status |-> 0, answers |-> TRUE,
     workflows |-> w,
     runs |-> <<Run(Some("success"), Some("2024-05-01T10:00:00Z"), Some("2024-05-01T10:03:00Z"))>>,
     protection |-> BareRepo.protection, files |-> BareRepo.files,
     releases |-> BareRepo.releases, commits |-> BareRepo.commits,
     changelog |-> BareRepo.changelog]

InitWorkflows ==
    /\ gateway \in {WorkflowGateway(w) : w \in WorkflowDirectories}
    /\ catalog = all_checks
    /\ url = SampleUrl
    /\ pc = "start"
    /\ results = <<>>
    /\ calls = {}
    /\ ret = NotReturned
    /\ AnalysisInFlight

\* analyze over the workflow directories.
WorkflowSpec == InitWorkflows /\ [][Next]_vars

\* The texts submitted: a repository named in the short form or by its URL,
\* with or without owner, repository name, ".git", further path segments,
\* slashes and blanks at the ends.
UrlSamples ==
    {lead \o host \o owner \o slash \o name \o suffix \o rest \o trail :
        lead \in {<<>>, <<" ">>},
        host \in {<<>>, <<"h", "t", "t", "p", "s", ":", "/", "/", "g", "i", "t", "h", "u", "b", ".", "c", "o", "m", "/">>, <<"g", "i", "t", "h", "u", "b", ".", "c", "o", "m", "/">>, <<"h", "t", "t", "p", "s", ":", "/", "/", "g", "i", "t", "h", "u", "b", ".", "c", "o", "m">>,
                  <<"h", "t", "t", "p", "s", ":", "/", "/", "g", "i", "t", "l", "a", "b", ".", "c", "o", "m", "/">>},
        owner \in {<<>>, <<"o", "w", "n", "e", "r">>},
        slash \in {<<>>, <<"/">>},
        name \in {<<>>, <<"r", "e", "p", "o">>, <<"r", "e", "p", "o", " ">>,
                  <<"o", "w", "n", "e", "r", ".", "g", "i", "t", "h", "u", "b", ".", "c", "o", "m">>},
        suffix \in {<<>>, <<".", "g", "i", "t">>},
        rest \in {<<>>, <<"/">>, <<"/", "t", "r", "e", "e", "/", "m", "a", "i", "n">>},
        trail \in {<<>>, <<" ">>, <<"/", " ">>}}

\* The repository field of the gateway is set when the URL is parsed.
InitUrls ==
    /\ url \in UrlSamples
    /\ gateway = WorkflowGateway(Some(<<File("ci.yml", T_basic)>>))
    /\ catalog = all_checks
    /\ pc = "submitted"
    /\ results = <<>>
    /\ calls = {}
    /\ ret = NotReturned
    /\ AnalysisInFlight

\* The task of on_analyze over the texts submitted.
UrlSpec == InitUrls /\ [][SubmitNext]_vars

\* Commit messages, and the histories made of them, newest commit first.
CommitMessages ==
    {<<"f", "e", "a", "t", ":", " ", "a">>, <<"M", "e", "r", "g", "e", " ", "b", "r", "a", "n", "c", "h", " ", "'", "x", "'">>, <<"f", "i", "x", "(", "c", "o", "r", "e", ")", "!", ":", " ", "b">>, <<"u", "p", "d", "a", "t", "e", " ", "s", "t", "u", "f", "f">>}

CommitLists == UNION {[1..n -> {Commit(m) : m \in CommitMessages}] : n \in 0..MaxCommits}

\* One repository with the history cs; the commits are listed, or (d) the
\* listing fails with the status s.
HistoryGateway(d, s, cs) ==
    [repo |-> SampleRepo, now |-> "2024-05-04T12:00:00.000Z",
     down |-> d, status |-> s, answers |-> TRUE,
     workflows |-> Some(<<File("ci.yml", T_basic)>>),
     runs |-> <<Run(Some("success"), Some("2024-05-01T10:00:00Z"), Some("2024-05-01T10:03:00Z"))>>,
     protection |-> GrowingRepo.protection, files |-> GrowingRepo.files,
     releases |-> GrowingRepo.releases, commits |-> cs,
     changelog |-> GrowingRepo.changelog]

\* The histories, listed or not (network error, 403).
HistoryGateways ==
    {HistoryGateway({}, 0, cs) : cs \in CommitLists}
    \cup {HistoryGateway({"fetch_commits"}, s, cs) : s \in {0, 403}, cs \in CommitLists}

InitHistories ==
    /\ gateway \in HistoryGateways
    /\ catalog = all_checks
    /\ url = SampleUrl
    /\ pc = "start"
    /\ results = <<>>
    /\ calls = {}
    /\ ret = NotReturned
    /\ AnalysisInFlight

\* analyze over the histories.
HistorySpec == InitHistories /\ [][Next]_vars

\* Commit messages built around every type: the type or a longer word, a scope
\* or a broken one, "!" or not, the separator or a broken one, after nothing or
\* after a first line of other text.
MessageWords ==
    {prefixes[i] \o suffix : i \in DOMAIN prefixes, suffix \in {<<>>, <<"s">>, <<"u", "r", "e">>}}
    \cup {<<>>, <<"F", "e", "a", "t">>}

MessageScopes == {<<>>, <<"(", "c", "o", "r", "e", ")">>, <<"(">>, <<"(", ")">>, <<" ", "(", "c", "o", "r", "e", ")">>, <<"(", "a", ")", "(", "b", ")">>}

MessageSeparators == {<<":", " ">>, <<":">>, <<" ", ":", " ">>, <<>>, <<":", "\n", " ">>}

MessageSamples ==
    {first \o word \o scope \o bang \o separator \o <<"x">> :
        first \in {<<>>, <<"\n">>, <<"w", "i", "p", "\n">>}, word \in MessageWords,
        scope \in MessageScopes, bang \in {<<>>, <<"!">>},
        separator \in MessageSeparators}

InitMessages ==
    /\ gateway \in {HistoryGateway({}, 0, <<Commit(m)>>) : m \in MessageSamples}
    /\ catalog = all_checks
    /\ url = SampleUrl
    /\ pc = "start"
    /\ results = <<>>
    /\ calls = {}
    /\ ret = NotReturned
    /\ AnalysisInFlight

\* analyze over the repositories with one commit.
MessageSpec == InitMessages /\ [][Next]_vars

----------------------------------------------------------------------------
(* The application: search bar, analysis, results and AI review *)

\* At most this many calls of on_ai_request in one behaviour.
MaxRequests == 2

\* The texts of the URL field: nothing, the short form of a repository, and a
\* text that names no repository.
UrlTexts == {<<>>, <<"o", "/", "r">>, <<"r">>}

\* The texts of the token field.
TokenTexts == {"", "github_pat_11AAAA"}

\* What the GitHub API does during one analysis: it answers everything, it does
\* not know the repository, it never answers the metadata request, it refuses
\* the run history, it never answers the request for the run history.
AppFaults ==
    {[down |-> {}, status |-> 0, answers |-> TRUE],
     [down |-> {"fetch_repo_metadata"}, status |-> 404, answers |-> TRUE],
     [down |-> {"fetch_repo_metadata"}, status |-> 0, answers |-> FALSE],
     [down |-> {"fetch_workflow_runs"}, status |-> 403, answers |-> TRUE],
     [down |-> {"fetch_workflow_runs"}, status |-> 0, answers |-> FALSE]}

AppGateways ==
    {[WorkflowGateway(Some(<<File("ci.yml", T_basic)>>))
         EXCEPT !.down = f.down, !.status = f.status, !.answers = f.answers] :
        f \in AppFaults}

\* The answers of the AI API to a review request: a review, or an error.
ReviewOutcomes ==
    {AiDone([summary |-> "resume", recommendations |-> <<>>]),
     AiError("Token invalide ou permission manquante.")}

\* search_bar on_submit (lines 16-36) and app on_analyze (lines 26-53): the form
\* can be submitted while the button is enabled; an empty URL is ignored, an
\* empty token is no token; the token is kept, the state becomes Loading and the
\* task is spawned.  Loading replaces the Results that were shown.
on_submit ==
    /\ ~is_loading
    /\ \E text \in UrlTexts, pat \in TokenTexts, g \in AppGateways :
         IF text = <<>>
         THEN UNCHANGED vars
         ELSE /\ token' = IF pat = "" THEN None ELSE Some(pat)
              /\ state' = Loading
              /\ tasks' = tasks + 1
              /\ url' = text
              /\ gateway' = g
              /\ pc' = "submitted"
              /\ results' = <<>>
              /\ calls' = {}
              /\ ret' = NotReturned
              /\ ai_state' = None
              /\ reviews' = unmounted(reviews)
              /\ UNCHANGED <<catalog, ai_calls, requests>>

\* app on_reset (lines 55-60), offered by the buttons of the Done and Error
\* views.
on_reset ==
    /\ state.kind \in {"Done", "Error"}
    /\ state' = Idle
    /\ ai_state' = None
    /\ reviews' = unmounted(reviews)
    /\ UNCHANGED <<url, gateway, catalog, pc, results, calls, ret,
                   token, tasks, ai_calls, requests>>

\* results on_ai_request (lines 29-55), up to the spawn of the review task.  The
\* callback exists while Results is mounted; the panel offers it in the states
\* Idle (with a token) and Error.
on_ai_request ==
    /\ ai_state # None
    /\ requests < MaxRequests
    /\ requests' = requests + 1
    /\ LET client == AiClient_new(token)
       IN  IF client = None
           THEN /\ ai_state' = Some(AiUnavailable)
                /\ reviews' = reviews
           ELSE /\ ai_state' = Some(AiLoading)
                /\ reviews' = Append(reviews, [token |-> client[1].token,
                                               mounted |-> TRUE, sent |-> FALSE])
    /\ UNCHANGED <<url, gateway, catalog, pc, results, calls, ret,
                   state, token, tasks, ai_calls>>

\* The review task (results, lines 45-47; AiClient::review, lines 149-189): the
\* first workflow file is fetched and the request is sent to the AI API with
\* the token of the client.
ReviewSend ==
    \E i \in DOMAIN reviews :
        /\ ~reviews[i].sent
        /\ reviews' = [reviews EXCEPT ![i].sent = TRUE]
        /\ ai_calls' = ai_calls \cup {Some(reviews[i].token)}
        /\ UNCHANGED <<url, gateway, catalog, pc, results, calls, ret,
                       state, token, tasks, ai_state, requests>>

\* The review task (results, lines 47-50; AiClient::review, lines 191-225): the
\* answer of the AI API becomes the AI review state of the Results that spawned
\* the task, if it is still mounted.
ReviewAnswer ==
    \E i \in DOMAIN reviews, outcome \in ReviewOutcomes :
        /\ reviews[i].sent
        /\ ai_state' = IF reviews[i].mounted THEN Some(outcome) ELSE ai_state
        /\ reviews' = SubSeq(reviews, 1, i - 1) \o SubSeq(reviews, i + 1, Len(reviews))
        /\ UNCHANGED <<url, gateway, catalog, pc, results, calls, ret,
                       state, token, tasks, ai_calls, requests>>

AppNext ==
    on_submit \/ on_reset \/ on_ai_request \/ ReviewSend \/ ReviewAnswer \/ SubmitNext

\* The application when it is loaded: app, lines 23-24.
InitApp ==
    /\ state = Idle
    /\ token = None
    /\ tasks = 0
    /\ ai_state = None
    /\ reviews = <<>>
    /\ ai_calls = {}
    /\ requests = 0
    /\ url = <<>>
    /\ gateway \in AppGateways
    /\ catalog = all_checks
    /\ pc = "idle"
    /\ results = <<>>
    /\ calls = {}
    /\ ret = NotReturned

\* The application and what its user and the two APIs do.
AppSpec == InitApp /\ [][AppNext]_vars

\* The same, where the task of on_analyze is polled whenever it can go on.
AppLiveSpec == AppSpec /\ WF_vars(SubmitNext)

----------------------------------------------------------------------------
(* Properties *)

Returned == ret # NotReturned

ReturnedOk == Returned /\ ret[1].ok

ReturnedErr == Returned /\ ~ret[1].ok

Report == ret[1].value

MetadataFetched == fetch_repo_metadata(gateway).ok

MetadataAnswered == ~never_resolves(gateway, <<"fetch_repo_metadata">>)

\* Every result of a report, category after category.
RECURSIVE flatten(_, _)
flatten(categories, n) ==
    IF n = 0 THEN <<>> ELSE flatten(categories, n - 1) \o categories[n].results

ReportResults == flatten(Report.categories, Len(Report.categories))

Count(s, Test(_)) == Cardinality({i \in DOMAIN s : Test(s[i])})

NotSkipped(r) == r.status # "Skipped"

PassedOrWarning(r) == r.status \in {"Passed", "Warning"}

StatusesOf(s) == {s[i].status : i \in DOMAIN s}

\* The Gateway operations the evaluator of the i-th check called that failed
\* with a network error (0) or an authorization / rate-limit error (403).
FailedCalls(i) ==
    {c \in Range(run_check(gateway, catalog[i]).calls) :
        c \in gateway.down /\ gateway.answers /\ gateway.status \in {0, 403}}

\* C1: when the repository-metadata fetch fails, analyze returns an error at
\* once: no evaluator has run, no Gateway operation other than the metadata
\* fetch has been called, and no report exists.
C1_MetadataFailureAborts ==
    (pc # "start" /\ MetadataAnswered /\ ~MetadataFetched)
        => /\ pc = "returned"
           /\ ReturnedErr
           /\ results = <<>>
           /\ calls = {"fetch_repo_metadata"}

C1_Witness ==
    /\ pc = "returned" /\ ReturnedErr
    /\ gateway.down = {"fetch_repo_metadata"} /\ gateway.status = 404

\* C2: once the metadata fetch has succeeded, whatever the evaluators' Gateway
\* calls answer, analyze keeps running its checks until it returns, and what it
\* returns is
\* Ok(report) with one result per check: a failed Gateway call of an evaluator
\* never becomes the error of analyze.
C2_EvaluatorFailuresAreCaptured ==
    (pc # "start" /\ MetadataFetched /\ gateway.answers)
        => IF pc = "returned"
           THEN ReturnedOk /\ Len(ReportResults) = Len(catalog)
           ELSE pc = "checks" /\ ~Returned /\ Len(results) <= Len(catalog)

C2_Witness ==
    /\ ReturnedOk
    /\ gateway.answers
    /\ gateway.down = {"fetch_workflow_runs"}
    /\ "fetch_workflow_runs" \in calls

\* C3: in every report the global aggregates are the sums of the category
\* aggregates.
C3_GlobalIsSumOfCategories ==
    ReturnedOk =>
        LET c == Report.categories
        IN  /\ Len(c) = 4
            /\ Report.passed = c[1].passed + c[2].passed + c[3].passed + c[4].passed
            /\ Report.total = c[1].total + c[2].total + c[3].total + c[4].total

C3_Witness ==
    /\ ReturnedOk
    /\ \A i \in DOMAIN Report.categories : Report.categories[i].passed > 0
    /\ Report.passed < Report.total

\* C4: Skipped results are in no denominator: each category's total is the
\* number of its results that are not Skipped, the report's total is the number
\* of results that are not Skipped, and the totals are those of the report built
\* from the same results with the Skipped ones left out.
C4_SkippedNotInTotals ==
    ReturnedOk =>
        LET kept == SelectSeq(results, NotSkipped)
            without == ScoreReport(gateway, kept)
        IN  /\ \A i \in DOMAIN Report.categories :
                 /\ Report.categories[i].total = Count(Report.categories[i].results, NotSkipped)
                 /\ Report.categories[i].total = without.categories[i].total
            /\ Report.total = Count(results, NotSkipped)
            /\ Report.total = without.total

C4_Witness ==
    /\ ReturnedOk
    /\ Count(results, NotSkipped) < Len(results)
    /\ \E i \in DOMAIN Report.categories :
         /\ Report.categories[i].total > 0
         /\ Report.categories[i].total < Len(Report.categories[i].results)

\* C5: one counting rule at both levels: a category's passed is the number of
\* its results that are Passed or Warning, and the report's passed is the
\* number of Passed or Warning results of all categories.
C5_PassedCountsPassedAndWarning ==
    ReturnedOk =>
        /\ \A i \in DOMAIN Report.categories :
             Report.categories[i].passed = Count(Report.categories[i].results, PassedOrWarning)
        /\ Report.passed = Count(results, PassedOrWarning)

C5_Witness ==
    /\ ReturnedOk
    /\ \E i \in DOMAIN Report.categories :
         StatusesOf(Report.categories[i].results) = CheckStatus

\* C6 (as claimed): a check whose evaluator had a Gateway call fail with a
\* network, rate-limit or authorization error is Skipped.
C6_GatewayErrorGivesSkipped ==
    \A i \in DOMAIN results : FailedCalls(i) # {} => results[i].status = "Skipped"

\* C7 (as claimed): no evaluator blocks the analysis: analyze is never left
\* waiting for an evaluator whose Gateway operation does not answer (pc =
\* "awaiting", which no step leaves); the check is resolved and analyze goes on.
C7_AnalysisNeverBlocks ==
    MetadataAnswered => pc # "awaiting"

\* C8: a check whose id has no evaluator gets a Skipped result that says "not
\* implemented", with no points and no suggestion; analyze still returns a
\* report, and the check is in no total of it.
C8_UnknownIdIsSkipped ==
    /\ \A i \in DOMAIN results :
         catalog[i].id = "license_exists"
            => results[i] = [check |-> catalog[i], status |-> "Skipped",
                             points_earned |-> 0, detail |-> "Check non implemente",
                             suggestion |-> None]
    /\ pc = "returned" =>
         /\ ReturnedOk
         /\ LET known == SelectSeq(results, LAMBDA r : r.check.id # "license_exists")
                without == ScoreReport(gateway, known)
            IN  /\ Report.total = without.total
                /\ Report.passed = without.passed
                /\ \A i \in DOMAIN Report.categories :
                     /\ Report.categories[i].total = without.categories[i].total
                     /\ Report.categories[i].passed = without.categories[i].passed

C8_Witness ==
    /\ ReturnedOk
    /\ \E i \in DOMAIN ReportResults : ReportResults[i].check.id = "license_exists"
    /\ Report.total > 0

\* The position of a check in the catalog.
IndexOf(check) == CHOOSE i \in DOMAIN catalog : catalog[i] = check

\* C9: the categories of a report are Fundamentals, Intermediate, Advanced,
\* Bonus in this order, each once, also a category without result and whatever
\* the order the results were produced in; the results of a category are in the
\* order of their checks in the catalog.
C9_CategoryOrder ==
    ReturnedOk =>
        /\ [i \in DOMAIN Report.categories |-> Report.categories[i].category]
             = <<"Fundamentals", "Intermediate", "Advanced", "Bonus">>
        /\ \A i \in DOMAIN Report.categories :
             LET rs == Report.categories[i].results
             IN  \A a, b \in DOMAIN rs :
                    a < b => IndexOf(rs[a].check) < IndexOf(rs[b].check)

C9_Witness ==
    /\ ReturnedOk
    /\ results[1].check.category = "Bonus"
    /\ \E i \in DOMAIN Report.categories : Report.categories[i].results = <<>>
    /\ \E i \in DOMAIN Report.categories : Len(Report.categories[i].results) >= 2

\* C10: a report holds exactly one result for each check of the catalog, in the
\* category of the check: it is built from the results of all the evaluators.
C10_OneResultPerCheck ==
    ReturnedOk =>
        /\ Len(results) = Len(catalog)
        /\ Len(ReportResults) = Len(catalog)
        /\ \A k \in DOMAIN catalog :
             /\ Cardinality({i \in DOMAIN ReportResults : ReportResults[i].check = catalog[k]}) = 1
             /\ \E i \in DOMAIN Report.categories :
                  /\ Report.categories[i].category = catalog[k].category
                  /\ \E j \in DOMAIN Report.categories[i].results :
                       Report.categories[i].results[j].check = catalog[k]

C10_Witness ==
    /\ ReturnedOk
    /\ Len(ReportResults) = 29
    /\ \E i \in DOMAIN ReportResults : ReportResults[i].status = "Skipped"

\* Whether the evaluator of the check `id` has run, and the result it gave.
HasResult(id) == \E i \in DOMAIN results : results[i].check.id = id

ResultOf(id) == results[CHOOSE i \in DOMAIN results : results[i].check.id = id]

\* C11: the result of the branch-protection check is Passed iff the Gateway
\* returns protection rules with a required-pull-request-review rule, Warning
\* iff it returns rules without that rule, Failed iff it answers 404, and
\* Skipped for every other error (401, 403, network error, parse error).
C11_BranchProtection ==
    HasResult("branch_protection") =>
        LET answer == fetch_branch_protection(gateway, "main")
            status == ResultOf("branch_protection").status
        IN  /\ status = "Passed"
                <=> (answer.ok /\ answer.value.required_pull_request_reviews # None)
            /\ status = "Warning"
                <=> (answer.ok /\ answer.value.required_pull_request_reviews = None)
            /\ status = "Failed" <=> (~answer.ok /\ answer.status = 404)
            /\ status = "Skipped" <=> (~answer.ok /\ answer.status \in {0, 200, 401, 403})

\* The protection of a protected branch could not be parsed (the body of a 200):
\* the check is skipped.
C11_Witness ==
    /\ HasResult("branch_protection")
    /\ gateway.protection # None
    /\ "fetch_branch_protection" \in gateway.down
    /\ gateway.status = 200
    /\ ResultOf("branch_protection").status = "Skipped"

\* The run lists whose most recent run is the one of the analysed repository.
SameLatestRun ==
    {r \in RunsSamples : r # <<>> /\ gateway.runs # <<>> /\ r[1] = gateway.runs[1]}

\* C12: the pipeline-green check looks at the most recent run only: Passed for
\* the conclusion "success", Failed for any other conclusion, Warning for no
\* conclusion yet, Failed for an empty list of runs, Skipped when the Gateway
\* fails; the runs before the most recent one do not change the result.
C12_PipelineGreen ==
    HasResult("pipeline_green") =>
        LET r == ResultOf("pipeline_green")
            check == r.check
        IN  IF "fetch_workflow_runs" \in gateway.down THEN r.status = "Skipped"
            ELSE IF gateway.runs = <<>> THEN r.status = "Failed"
            ELSE /\ gateway.runs[1].conclusion = Some("success") => r.status = "Passed"
                 /\ gateway.runs[1].conclusion \notin {None, Some("success")}
                        => r.status = "Failed"
                 /\ gateway.runs[1].conclusion = None => r.status = "Warning"
                 /\ \A older \in SameLatestRun :
                        check_pipeline_green([gateway EXCEPT !.runs = older], check).result = r

\* The most recent run is still running and the run before it succeeded.
C12_Witness ==
    /\ HasResult("pipeline_green")
    /\ "fetch_workflow_runs" \notin gateway.down
    /\ Len(gateway.runs) = 2
    /\ gateway.runs[1].conclusion = None
    /\ gateway.runs[2].conclusion = Some("success")
    /\ ResultOf("pipeline_green").status = "Warning"

\* Whether a commit message begins with one of the three merge prefixes.
IsMerge(message) ==
    \/ starts_with(message, <<"M", "e", "r", "g", "e", " ", "p", "u", "l", "l", " ", "r", "e", "q", "u", "e", "s", "t">>)
    \/ starts_with(message, <<"M", "e", "r", "g", "e", " ", "b", "r", "a", "n", "c", "h">>)
    \/ starts_with(message, <<"M", "e", "r", "g", "e", " ", "r", "e", "m", "o", "t", "e">>)

NonMerge == {i \in DOMAIN gateway.commits : ~IsMerge(gateway.commits[i].commit.message)}

Matched == {i \in NonMerge : is_conventional_commit(gateway.commits[i].commit.message)}

\* The history of the example: 2 of the 3 commits that are no merge match.
ExampleHistory ==
    <<Commit(<<"f", "e", "a", "t", ":", " ", "a">>),
      Commit(<<"M", "e", "r", "g", "e", " ", "b", "r", "a", "n", "c", "h", " ", "'", "x", "'">>),
      Commit(<<"f", "i", "x", "(", "c", "o", "r", "e", ")", "!", ":", " ", "b">>),
      Commit(<<"u", "p", "d", "a", "t", "e", " ", "s", "t", "u", "f", "f">>)>>

\* C13: the conventional-commit check leaves the merge commits out of both
\* counts; it is Passed iff matched * 100 / total >= 80 over the other commits
\* and Failed otherwise, and Skipped when no other commit remains, the history
\* is empty or it cannot be fetched.  The history of the example is Failed.
C13_ConventionalCommitRatio ==
    HasResult("conventional_commits") =>
        LET status == ResultOf("conventional_commits").status
            matched == Cardinality(Matched)
            total == Cardinality(NonMerge)
        IN  /\ IF "fetch_commits" \in gateway.down \/ total = 0
               THEN status = "Skipped"
               ELSE /\ status = "Passed" <=> matched * 100 >= 80 * total
                    /\ status = "Failed" <=> matched * 100 < 80 * total
            /\ (gateway.commits = ExampleHistory /\ "fetch_commits" \notin gateway.down)
                   => (matched = 2 /\ total = 3 /\ status = "Failed")

\* The history of the example has been evaluated.
C13_Witness ==
    /\ HasResult("conventional_commits")
    /\ gateway.commits = ExampleHistory
    /\ "fetch_commits" \notin gateway.down
    /\ ResultOf("conventional_commits").status = "Failed"

\* The first line of a message: the characters before its first newline.
FirstLine(message) ==
    IF \E i \in DOMAIN message : message[i] = "\n"
    THEN SubSeq(message, 1, (CHOOSE i \in DOMAIN message :
                                 message[i] = "\n" /\ \A j \in 1..(i - 1) : message[j] # "\n") - 1)
    ELSE message

ConventionalTypes ==
    {<<"f", "e", "a", "t">>, <<"f", "i", "x">>, <<"d", "o", "c", "s">>, <<"s", "t", "y", "l", "e">>, <<"r", "e", "f", "a", "c", "t", "o", "r">>, <<"t", "e", "s", "t">>, <<"c", "h", "o", "r", "e">>, <<"c", "i">>, <<"b", "u", "i", "l", "d">>, <<"p", "e", "r", "f">>, <<"r", "e", "v", "e", "r", "t">>}

\* type[(scope)][!]": " at the start of a line: the type ends at k, the optional
\* scope (parenthesized, up to the first closing parenthesis) at j.
Grammar(line) ==
    \E type \in ConventionalTypes :
        LET k == Len(type)
        IN  /\ Len(line) >= k
            /\ SubSeq(line, 1, k) = type
            /\ \E j \in k..Len(line) :
                   /\ \/ j = k
                      \/ /\ j >= k + 2
                         /\ line[k + 1] = "("
                         /\ line[j] = ")"
                         /\ \A m \in (k + 2)..(j - 1) : line[m] # ")"
                   /\ \E bang \in {0, 1} :
                          /\ j + bang + 2 <= Len(line)
                          /\ bang = 1 => line[j + 1] = "!"
                          /\ line[j + bang + 1] = ":"
                          /\ line[j + bang + 2] = " "

\* C14: is_conventional_commit is true exactly when the first line of the
\* message begins with type[(scope)][!]": " for one of the 11 types; the check
\* of a repository with one commit passes exactly for such a message.
C14_ConventionalCommitGrammar ==
    /\ \A i \in DOMAIN gateway.commits :
           is_conventional_commit(gateway.commits[i].commit.message)
               <=> Grammar(FirstLine(gateway.commits[i].commit.message))
    /\ (HasResult("conventional_commits") /\ "fetch_commits" \notin gateway.down
        /\ Len(gateway.commits) = 1 /\ ~IsMerge(gateway.commits[1].commit.message))
           => (ResultOf("conventional_commits").status = "Passed"
                   <=> Grammar(FirstLine(gateway.commits[1].commit.message)))

\* The only commit is "feature: x": it is not conventional and the check fails.
C14_Witness ==
    /\ HasResult("conventional_commits")
    /\ gateway.commits = <<Commit(<<"f", "e", "a", "t", "u", "r", "e", ":", " ", "x">>)>>
    /\ ~is_conventional_commit(gateway.commits[1].commit.message)
    /\ ResultOf("conventional_commits").status = "Failed"

\* The workflow text the keyword checks search: the texts of the YAML files of
\* the workflow directory, in lower case.
WorkflowTextLower ==
    IF gateway.workflows = None \/ "fetch_workflow_files" \in gateway.down THEN <<>>
    ELSE LET yaml == SelectSeq(gateway.workflows[1],
                               LAMBDA f : \E suffix \in {".yml", ".yaml"} : suffix \in Suffixes[f.name])
         IN  IF "fetch_file_content" \in gateway.down THEN <<>>
             ELSE [i \in DOMAIN yaml |-> Lower[yaml[i].text]]

\* The keywords of `keywords` that occur in the lower-cased workflow text.
Present(keywords) ==
    {k \in keywords : \E i \in DOMAIN WorkflowTextLower : k \in Occurs[WorkflowTextLower[i]]}

EnvironmentIndicators ==
    {"environment:", "staging", "production", "prod", "dev", "deploy-staging", "deploy-prod"}

DeployKeywords ==
    {"deploy", "publish", "release", "gh-pages", "pages", "aws", "azure", "gcloud",
     "heroku", "vercel", "netlify", "render", "fly.io"}

PushTriggerPatterns == {"on:\n  push:", "on: [push"}

\* C16: the auto-deploy check is Passed iff the workflow text has a deploy
\* keyword and a push-trigger pattern, Warning iff it has a deploy keyword and
\* no push-trigger pattern, Failed iff it has no deploy keyword.
C16_AutoDeploy ==
    HasResult("auto_deploy") =>
        LET status == ResultOf("auto_deploy").status
            deploy == Present(DeployKeywords) # {}
            push == Present(PushTriggerPatterns) # {}
        IN  /\ status = "Passed" <=> (deploy /\ push)
            /\ status = "Warning" <=> (deploy /\ ~push)
            /\ status = "Failed" <=> ~deploy

\* A push trigger without any deploy keyword: Failed.
C16_Witness ==
    /\ HasResult("auto_deploy")
    /\ Present(PushTriggerPatterns) # {}
    /\ Present(DeployKeywords) = {}
    /\ ResultOf("auto_deploy").status = "Failed"

\* The checks that search the workflow text for keywords.
KeywordChecks ==
    {"tests_exist", "lint_in_ci", "docker_build_ci", "no_secrets_in_code", "security_scan",
     "coverage_configured", "ghcr_published", "quality_gate", "multi_environment",
     "auto_deploy", "ci_cache", "ci_notifications", "matrix_testing", "reusable_workflows",
     "smoke_tests", "auto_changelog", "rollback_strategy"}

\* The workflow directories whose files differ from those of the analysed
\* repository in the case of the letters of their text only.
CaseVariants ==
    IF gateway.workflows = None THEN {None}
    ELSE {w \in WorkflowDirectories :
             /\ w # None
             /\ Len(w[1]) = Len(gateway.workflows[1])
             /\ \A i \in DOMAIN w[1] :
                    /\ w[1][i].name = gateway.workflows[1][i].name
                    /\ Lower[w[1][i].text] = Lower[gateway.workflows[1][i].text]}

\* The status the check `id` gives when the workflow directory is w.
StatusWith(id, w) ==
    run_check([gateway EXCEPT !.workflows = w], ResultOf(id).check).result.status

\* C17 (as claimed): every workflow-text keyword check gives the same status on
\* two workflow texts that differ only in letter case.
C17_KeywordChecksIgnoreCase ==
    \A id \in KeywordChecks :
        HasResult(id) =>
            \A w \in CaseVariants : StatusWith(id, w) = ResultOf(id).status

\* C18: a CheckResult carries a suggestion if and only if its status is Failed
\* or Warning, whichever evaluator produced it.
C18_SuggestionIffFailedOrWarning ==
    \A i \in DOMAIN results :
        (results[i].suggestion # None) <=> (results[i].status \in {"Failed", "Warning"})

\* Results of the four statuses have been produced.
C18_Witness ==
    /\ StatusesOf(results) = CheckStatus
    /\ \E i \in DOMAIN results :
           results[i].status = "Warning" /\ results[i].suggestion # None
    /\ \E i \in DOMAIN results :
           results[i].status = "Skipped" /\ results[i].suggestion = None

\* The task ended on the error of the URL, before any Gateway call.
ParseFailed == pc = "returned" /\ ~ret[1].ok /\ calls = {}

\* The text after the first "github.com/" of t, or t when there is none.
PathOf(t) ==
    LET host == <<"g", "i", "t", "h", "u", "b", ".", "c", "o", "m", "/">>
        at == {i \in 1..(Len(t) - Len(host) + 1) : SubSeq(t, i, i + Len(host) - 1) = host}
    IN  IF at = {} THEN t
        ELSE SubSeq(t, (CHOOSE i \in at : \A j \in at : i <= j) + Len(host), Len(t))

WithoutDotGit(name) ==
    IF Len(name) >= 4 /\ SubSeq(name, Len(name) - 3, Len(name)) = <<".", "g", "i", "t">>
    THEN SubSeq(name, 1, Len(name) - 4) ELSE name

\* The identifier the text names: the first two segments of its path, the
\* second without a trailing ".git"; NotReturned when there are fewer than two
\* segments or one of the two is empty.
Identifier(text) ==
    LET path == PathOf(trim_end_matches(trim(text), <<"/">>))
        cut == find(path, "/")
        after == SubSeq(path, cut + 1, Len(path))
        second == IF find(after, "/") = 0 THEN after
                  ELSE SubSeq(after, 1, find(after, "/") - 1)
    IN  IF cut <= 1 \/ WithoutDotGit(second) = <<>> THEN NotReturned
        ELSE <<[owner |-> SubSeq(path, 1, cut - 1), repo |-> WithoutDotGit(second)]>>

\* C20 (as claimed): parse_repo_url accepts "owner/repo" and any URL containing
\* "github.com/owner/repo[...]" and returns the first two path segments as owner
\* and repo (blanks around, trailing slashes, a trailing ".git" and further
\* segments stripped); it returns an error when fewer than two segments remain
\* or owner or repo would be empty.
C20_ParseRepoUrl ==
    pc # "submitted" =>
        IF Identifier(url) = NotReturned THEN ParseFailed
        ELSE ~ParseFailed /\ gateway.repo = Identifier(url)[1]

\* The keywords of a test step.
TestStepKeywords ==
    {"test", "pytest", "jest", "cargo test", "go test", "npm test", "yarn test",
     "phpunit", "rspec"}

\* C21: the tests-pass check is Passed iff a test step occurs in the workflow
\* text and the latest run concluded "success"; without a test step it is
\* Failed whatever the runs are and the runs are not fetched; with a test step
\* it is Failed for another conclusion, and Skipped for no run, a latest run
\* without conclusion or a Gateway error.
C21_TestsPass ==
    HasResult("tests_pass") =>
        LET r == ResultOf("tests_pass")
            has_test_step == Present(TestStepKeywords) # {}
            fetched == "fetch_workflow_runs" \in Range(run_check(gateway, r.check).calls)
            error == "fetch_workflow_runs" \in gateway.down
            latest == gateway.runs[1].conclusion
        IN  /\ r.status = "Passed"
                <=> (has_test_step /\ ~error /\ gateway.runs # <<>> /\ latest = Some("success"))
            /\ ~has_test_step => (r.status = "Failed" /\ ~fetched)
            /\ has_test_step => fetched
            /\ (has_test_step /\ ~error /\ gateway.runs # <<>>
                  /\ latest \notin {None, Some("success")}) => r.status = "Failed"
            /\ (has_test_step /\ (error \/ gateway.runs = <<>> \/ latest = None))
                  => r.status = "Skipped"

\* No test step in the workflows and the runs cannot be fetched: the check is
\* Failed, not Skipped.
C21_Witness ==
    /\ HasResult("tests_pass")
    /\ Present(TestStepKeywords) = {}
    /\ "fetch_workflow_runs" \in gateway.down
    /\ ResultOf("tests_pass").status = "Failed"

\* A test step and a latest run that is still running: the check is Skipped.
C21_WitnessRunning ==
    /\ HasResult("tests_pass")
    /\ Present(TestStepKeywords) # {}
    /\ "fetch_workflow_runs" \notin gateway.down
    /\ gateway.runs # <<>> /\ gateway.runs[1].conclusion = None
    /\ ResultOf("tests_pass").status = "Skipped"

\* The timestamps of the sample runs, in seconds since 2024-05-01T00:00:00Z.
Seconds ==
    ("2024-05-01T10:00:00Z" :> 36000) @@ ("2024-05-01T10:03:00Z" :> 36180)
    @@ ("2024-05-02T10:00:00Z" :> 122400) @@ ("2024-05-02T10:01:00Z" :> 122460)
    @@ ("2024-05-02T10:04:00Z" :> 122640) @@ ("2024-05-02T10:09:00Z" :> 122940)
    @@ ("2024-05-03T10:00:00Z" :> 208800)

\* The completed runs among the recent runs, and the time each one took from
\* its start to its last update.
CompletedRuns ==
    SelectSeq(gateway.runs,
              LAMBDA r : r.conclusion # None /\ r.run_started_at # None /\ r.updated_at # None)

Elapsed(r) == Seconds[r.updated_at[1]] - Seconds[r.run_started_at[1]]

RECURSIVE TotalElapsed(_)
TotalElapsed(runs) ==
    IF runs = <<>> THEN 0 ELSE Elapsed(Head(runs)) + TotalElapsed(Tail(runs))

\* C22: the fast-pipeline check is Passed only when the completed recent runs
\* took less than 5 minutes (300 seconds) on average.
C22_FastPipeline ==
    (HasResult("pipeline_fast") /\ ResultOf("pipeline_fast").status = "Passed") =>
        /\ CompletedRuns # <<>>
        /\ TotalElapsed(CompletedRuns) < 300 * Len(CompletedRuns)

\* Whenever the check is Passed a completed run exists: the part of the claim
\* the evaluator does implement.
C22_PassedNeedsCompletedRun ==
    (HasResult("pipeline_fast") /\ ResultOf("pipeline_fast").status = "Passed") =>
        CompletedRuns # <<>>

\* C26: the ids of the Catalog are pairwise distinct and every one of them has
\* an arm in run_check: no result of a Catalog check is the "not implemented"
\* result of the fallback arm.
C26_CatalogMatchesDispatcher ==
    /\ \A i, j \in DOMAIN catalog : catalog[i].id = catalog[j].id => i = j
    /\ \A i \in DOMAIN results :
         /\ results[i].check = catalog[i]
         /\ results[i] # not_implemented(catalog[i]).result
         /\ results[i].detail # "Check non implemente"

\* The evaluators of all the checks of the Catalog have run.
C26_Witness ==
    /\ ReturnedOk
    /\ Len(results) = Len(all_checks)
    /\ Cardinality({results[i].check.id : i \in DOMAIN results}) = Len(all_checks)
    /\ \E i \in DOMAIN results : results[i].status = "Skipped"

\* The scores of a report: the categories and the report itself.
Scores == Range(Report.categories) \cup {Report}

\* C27: in every report passed <= total for each category and globally, every
\* percentage lies between 0 and 100, and a score whose total is 0 has the
\* percentage 0.
C27_PercentageInRange ==
    ReturnedOk =>
        \A score \in Scores :
            LET pct == percentage(score)
            IN  /\ score.passed <= score.total
                /\ pct.den > 0
                /\ at_least(pct, 0)
                /\ pct.num <= 100 * pct.den
                /\ score.total = 0 => pct.num = 0

\* A report with a category all of whose checks are Skipped, next to a category
\* with evaluated checks.
C27_Witness ==
    /\ ReturnedOk
    /\ \E c \in Range(Report.categories) :
         /\ c.results # <<>>
         /\ StatusesOf(c.results) = {"Skipped"}
         /\ c.total = 0
         /\ percentage(c) = Ratio(0, 1)
    /\ \E c \in Range(Report.categories) : c.total > 0 /\ c.passed > 0 /\ c.passed < c.total

Failed(r) == r.status = "Failed"

\* C28: in every report of analyze, total - passed is the number of results
\* whose status is Failed; the number of failed checks in the header of the AI
\* prompt is the number of failed checks the prompt lists.
C28_FailedCount ==
    ReturnedOk =>
        /\ Report.total - Report.passed = Count(ReportResults, Failed)
        /\ Report.total - Report.passed = Count(results, Failed)
        /\ build_prompt(Report).failed = Len(build_prompt(Report).failed_checks)

\* A report with failed checks, warnings and skipped checks.
C28_Witness ==
    /\ ReturnedOk
    /\ StatusesOf(ReportResults) = CheckStatus
    /\ build_prompt(Report).failed > 0
    /\ build_prompt(Report).failed < build_prompt(Report).total

\* C29: the grade the score gauge shows agrees with ScoreReport::grade_label
\* and grade_color: for the passed and total of a report, both put the ratio
\* in the same band.
C29_GaugeAgreesWithGrade ==
    ReturnedOk =>
        LET gauge == score_gauge([passed |-> Report.passed, total |-> Report.total])
        IN  /\ gauge.label = grade_label(Report)
            /\ gauge.color = grade_color(Report)

\* The URL was parsed: the identifier is in gateway.repo.
Parsed == pc # "submitted" /\ ~ParseFailed

\* C30: parse_repo_url is idempotent on its output: when it succeeds with the
\* identifier r, parsing r.full_name() succeeds with the same owner and repo.
C30_ParseIsIdempotent ==
    Parsed =>
        LET again == parse_repo_url(full_name(gateway.repo))
        IN  again.ok /\ again.value = gateway.repo

\* The same for the identifiers that do not contain "github.com" and whose
\* owner does not begin, and repo does not end, with a blank: the part of the
\* claim that holds.
C30_PlainNamesAreIdempotent ==
    (/\ Parsed
     /\ ~contains_str(full_name(gateway.repo),
                      <<"g", "i", "t", "h", "u", "b", ".", "c", "o", "m">>)
     /\ trim(full_name(gateway.repo)) = full_name(gateway.repo)) =>
        LET again == parse_repo_url(full_name(gateway.repo))
        IN  again.ok /\ again.value = gateway.repo

\* The task of on_analyze is in flight: spawned and not ended.
InFlight == pc \in {"submitted", "start", "checks", "awaiting"}

\* C25: while an analysis is in flight the state is Loading and no second one
\* can be started (the form is disabled and reset is not offered): at most one
\* task of on_analyze is in flight, no submission and no reset happens meanwhile,
\* and a task only ever sets the state over the Loading of its own submission.
C25_OneAnalysisAtATime ==
    [][/\ tasks \in {0, 1}
       /\ tasks = 1 <=> InFlight
       /\ InFlight => (state = Loading /\ is_loading)
       /\ InFlight => (tasks' <= tasks /\ url' = url /\ gateway'.down = gateway.down)
       /\ (InFlight /\ state' # state)
            => (state = Loading /\ tasks' = 0 /\ pc' = "returned"
                /\ state'.kind \in {"Done", "Error"})]_vars

\* An analysis is in flight after an earlier one ended with a report.
C25_Witness ==
    /\ tasks = 1
    /\ state = Loading
    /\ pc = "checks"
    /\ results # <<>>
    /\ requests > 0

\* The review tasks spawned by the Results that is mounted now.
OwnReviews == SelectSeq(reviews, LAMBDA r : r.mounted)

\* C23: without a token AiClient::new returns None, the AI review state of the
\* Results starts as Unavailable and stays Unavailable whatever the number of
\* review requests, and no request spawns a review task or reaches the AI API;
\* the state is Loading or Done only with a token, and every request sent to
\* the AI API carries the token of the client that was built.
C23_AiReviewNeedsToken ==
    /\ [](/\ AiClient_new(None) = None
          /\ (token = None /\ state.kind = "Done")
                => (ai_state = Some(AiUnavailable) /\ OwnReviews = <<>>)
          /\ (ai_state # None /\ ai_state[1].kind \in {"Loading", "Done"})
                => token # None
          /\ \A call \in ai_calls : call \in {Some(t) : t \in TokenTexts \ {""}}
          /\ \A i \in DOMAIN reviews : reviews[i].token \in TokenTexts \ {""})
    /\ [][/\ (token = None /\ requests' = requests + 1)
               => (ai_state' = Some(AiUnavailable) /\ reviews' = reviews /\ ai_calls' = ai_calls)
          /\ Len(reviews') > Len(reviews) => token # None
          /\ ai_calls' # ai_calls
               => \E i \in DOMAIN reviews : ai_calls' = ai_calls \cup {Some(reviews[i].token)}]_vars

\* A review was requested on a report obtained without a token, and no review
\* was ever requested with a token: the state is Unavailable and the AI API was
\* not called.
C23_Witness ==
    /\ state.kind = "Done"
    /\ token = None
    /\ requests = MaxRequests
    /\ ai_state = Some(AiUnavailable)
    /\ reviews = <<>>
    /\ ai_calls = {}

\* With a token the review is requested and answered.
C23_WitnessReview ==
    /\ state.kind = "Done"
    /\ token # None
    /\ ai_state # None /\ ai_state[1].kind = "Done"
    /\ ai_calls = {token}

\* Every Gateway call of the analysis returns.
EveryCallReturns == gateway.answers \/ gateway.down = {}

\* The task of the last submission has ended and its outcome is still shown.
Settled == pc = "returned" /\ state # Idle

\* C24: a submission sets the state to Loading; if every Gateway call returns,
\* the state then becomes Done or Error, and it is set once: an unparsable URL
\* gives Error without any Gateway call, an unreachable repository gives Error,
\* otherwise Done holds the report of all the checks of the catalog; the state
\* never holds a report of fewer checks; reset, and only reset, leads from Done
\* or Error to Idle.
C24_AnalysisSettles ==
    /\ [][tasks' > tasks => (state' = Loading /\ calls' = {} /\ results' = <<>>)]_vars
    /\ [](/\ (Settled /\ ~parse_repo_url(url).ok)
                => (state = Error(parse_repo_url(url).error) /\ calls = {})
          /\ (Settled /\ parse_repo_url(url).ok /\ ~MetadataFetched)
                => (state.kind = "Error" /\ calls = {"fetch_repo_metadata"} /\ results = <<>>)
          /\ (Settled /\ parse_repo_url(url).ok /\ MetadataFetched)
                => state.kind = "Done"
          /\ state.kind = "Done"
                => /\ pc = "returned"
                   /\ Len(results) = Len(catalog)
                   /\ \A i \in DOMAIN results : results[i].check = catalog[i]
                   /\ state.report = ScoreReport(gateway, results)
                   /\ ReportResults = SelectSeq(results, LAMBDA r : TRUE)
                   /\ Len(flatten(state.report.categories, Len(state.report.categories)))
                        = Len(catalog)
          /\ state = Loading <=> InFlight)
    /\ [][/\ (state.kind \in {"Done", "Error"} /\ state' # state)
               => state' \in {Idle, Loading}
          /\ (state' = Idle /\ state # Idle) => state.kind \in {"Done", "Error"}]_vars
    /\ (state = Loading /\ EveryCallReturns) ~> (state.kind \in {"Done", "Error"})

\* A text that names no repository ended in Error and no Gateway operation was
\* called.
C24_Witness ==
    /\ state.kind = "Error"
    /\ pc = "returned"
    /\ ~parse_repo_url(url).ok
    /\ calls = {}
    /\ tasks = 0

\* The report of all the checks is shown; and Idle after a reset.
C24_WitnessDone ==
    /\ state.kind = "Done"
    /\ Len(results) = Len(all_checks)
    /\ "fetch_workflow_runs" \in gateway.down

C24_WitnessReset == state = Idle /\ pc = "returned" /\ ReturnedOk

====
